---- MODULE Spec2Model ----
(***************************************************************************)
(* Model of the savegame writer of client/savegame2.c: the top-level save  *)
(* call savegame2_save_real, its stages sg_save_*, the grid macros         *)
(* SAVE_MAP_CHAR / LOAD_MAP_CHAR and the nibble packers sg_*_get.          *)
(*                                                                         *)
(* A character is a one-character string, a C string a sequence of         *)
(* characters.  The section file is the sequence of its entries in         *)
(* insertion order; an entry is a key <<path, a, b, c>> (the path         *)
(* template and its integer arguments, -1 when unused) and a value         *)
(* [k, n, s] (kind "int" / "bool" / "str" / "vec", the number, the         *)
(* characters or vector elements).                                         *)
(***************************************************************************)
EXTENDS Integers, Sequences, FiniteSets, TLC

VARIABLES
  game,        \* the rule set and game flags read by the save (game.*, S_S_*)
  map,         \* map.xsize, map.ysize, map_is_empty()
  tiles,       \* map.tiles: tile index -> tile record
  players,     \* used player slots: slot number -> player record
  request,     \* the arguments of the save call (scenario)
  saving,      \* struct savedata of the running call
  sg_success,  \* static bool sg_success
  file,        \* the section file written by the call
  pc,          \* the stage of savegame2_save_real about to be called
  plr,         \* players_iterate position inside sg_save_players
  entered,     \* the stage functions called so far, in call order
  pack,        \* state of the nibble-packing runs (SpecNibble)
  load         \* state of the load runs (SpecLoad, SpecCompat)

vars == <<game, map, tiles, players, request, saving, sg_success, file, pc,
          plr, entered, pack, load>>

-----------------------------------------------------------------------------
(* Bounds of the model. *)

MaxX == 2        \* map.xsize ranges over 1..MaxX
MaxY == 2        \* map.ysize ranges over 1..MaxY
MaxTypes == 5    \* class sizes (base / road types) range over 0..MaxTypes
MaxSeed == 3     \* tile contents are drawn from the patterns 0..MaxSeed
MaxSlots == 2    \* player slots 0..MaxSlots-1
MaxCities == 2   \* cities per player 0..MaxCities
MaxPackN == 6    \* class sizes of the packing runs 0..MaxPackN

-----------------------------------------------------------------------------
(* Generic helpers. *)

MIN(a, b) == IF a < b THEN a ELSE b

Pow2(i) == 2 ^ i

\* The indices whose bit is set in the binary representation of n.
BitsOf(n, size) == {i \in 0 .. size - 1 : (n \div Pow2(i)) % 2 = 1}

RECURSIVE SetToSeq(_)
\* The elements of a finite set of integers in increasing order.
SetToSeq(S) ==
  IF S = {} THEN <<>>
  ELSE LET m == CHOOSE x \in S : \A y \in S : x <= y
       IN <<m>> \o SetToSeq(S \ {m})

Digits == <<"0", "1", "2", "3", "4", "5", "6", "7", "8", "9">>

RECURSIVE Dec(_)
\* printf("%d") of a non-negative integer.
Dec(n) == IF n < 10 THEN <<Digits[n + 1]>>
          ELSE Dec(n \div 10) \o <<Digits[(n % 10) + 1]>>

\* printf("%d") of any integer.
fc_snprintf_d(n) == IF n < 0 THEN <<"-">> \o Dec(0 - n) ELSE Dec(n)

\* isprint() on the 7-bit value of the character.
PrintableChars ==
  {" ", "!", "#", "$", "%", "&", "(", ")", "*", "+", ",", "-", ".", "/",
   ":", ";", "<", "=", ">", "?", "@", "[", "]", "^", "_", "{", "|", "}", "~"}
  \cup {Digits[i] : i \in 1 .. 10}
  \cup {"a", "b", "c", "d", "e", "f", "g", "h", "i", "j", "k", "l", "m",
        "n", "o", "p", "q", "r", "s", "t", "u", "v", "w", "x", "y", "z"}
  \cup {"A", "B", "C", "D", "E", "F", "G", "H", "I", "J", "K", "L", "M",
        "N", "O", "P", "Q", "R", "S", "T", "U", "V", "W", "X", "Y", "Z"}

fc_isprint(c) == c \in PrintableChars

-----------------------------------------------------------------------------
(* Encoding tables. *)

hex_chars == <<"0", "1", "2", "3", "4", "5", "6", "7",
               "8", "9", "a", "b", "c", "d", "e", "f">>

\* bin2ascii_hex(value, halfbyte_wanted)
bin2ascii_hex(value, halfbyte_wanted) ==
  hex_chars[((value \div Pow2(4 * halfbyte_wanted)) % 16) + 1]

\* The sentinel of an absent window slot of bases and roads.
NoType == -1

\* The for loop of the three packers: the slots are examined in order and
\* the loop is left at the first sentinel.  sentinel[i] tells whether slot
\* i - 1 holds one; the result is the first such slot (4 when there is none).
FirstSentinel(sentinel) ==
  IF \E i \in 1 .. 4 : sentinel[i]
  THEN (CHOOSE i \in 1 .. 4 :
          sentinel[i] /\ \A k \in 1 .. i - 1 : ~sentinel[k]) - 1
  ELSE 4

RECURSIVE SumBits(_)
SumBits(S) == IF S = {} THEN 0
              ELSE LET i == CHOOSE x \in S : TRUE
                   IN Pow2(i) + SumBits(S \ {i})

\* The loop with the bits of a group in the opposite order.
PackBin_reversed(bv, index, stop) ==
  SumBits({3 - i : i \in {k \in 0 .. stop - 1 : index[k + 1] \in bv}})

\* The value of bin after the loop: bit i for every examined slot i whose
\* index is in the bit vector.
PackBin(bv, index, stop) ==
  SumBits({i \in 0 .. stop - 1 : index[i + 1] \in bv})

\* The indices the loop tests in the bit vector (contains_special / BV_ISSET).
PackReads(index, stop) == {index[i + 1] : i \in 0 .. stop - 1}


\* S_LAST, the number of tile specials of the build (enum tile_special_type).
S_LAST == game.S_LAST

\* S_OLD_RIVER, the index of the river special.
S_OLD_RIVER == game.S_OLD_RIVER

\* if (sp >= S_LAST) break, for the slots of a window.
SpecialSentinel(index) == [i \in 1 .. 4 |-> index[i] >= S_LAST]

\* if (base < 0) break, if (road < 0) break, for the slots of a window.
TypeSentinel(index) == [i \in 1 .. 4 |-> index[i] < 0]

\* sg_special_get(specials, index)
sg_special_get(specials, index) ==
  hex_chars[PackBin(specials, index, FirstSentinel(SpecialSentinel(index))) + 1]

\* sg_bases_get(bases, index)
sg_bases_get(bases, index) ==
  hex_chars[PackBin(bases, index, FirstSentinel(TypeSentinel(index))) + 1]

\* sg_roads_get(roads, index)
sg_roads_get(roads, index) ==
  hex_chars[PackBin(roads, index, FirstSentinel(TypeSentinel(index))) + 1]

\* The bit-vector indices sg_special_get / sg_bases_get / sg_roads_get test.
sg_special_reads(index) == PackReads(index, FirstSentinel(SpecialSentinel(index)))

sg_bases_reads(index) == PackReads(index, FirstSentinel(TypeSentinel(index)))

sg_roads_reads(index) == PackReads(index, FirstSentinel(TypeSentinel(index)))

\* The groups a halfbyte_iterate loop over n symbols runs for.
GroupsOf(n) == {j \in 0 .. n : 4 * j < n}

\* halfbyte_iterate_special / _bases / _roads: j = 0, 1, ... while 4 * j < n.
halfbyte_iterate(n) == SetToSeq(GroupsOf(n))

\* mod[] of sg_save_map_tiles_bases for group j (slot l of the code is
\* element l + 1 here).
bases_mod(j) ==
  [l1 \in 1 .. 4 |->
     IF 4 * j + 1 > game.num_base_types THEN NoType ELSE 4 * j + (l1 - 1)]

\* mod[] of sg_save_map_tiles_roads for group j.
roads_mod(j) ==
  [l1 \in 1 .. 4 |->
     IF 4 * j + 1 > game.num_road_types THEN NoType ELSE 4 * j + (l1 - 1)]

\* mod[] of sg_save_map_tiles_specials for group j.
specials_mod(j, rivers_overlay) ==
  [l1 \in 1 .. 4 |->
     IF rivers_overlay
     THEN (IF 4 * j + (l1 - 1) = S_OLD_RIVER THEN S_OLD_RIVER ELSE S_LAST)
     ELSE MIN(4 * j + (l1 - 1), S_LAST)]

\* The terrain names terrain2char knows, with their characters.
TerrainChars ==
  ("Deep Ocean" :> ":") @@
  [Inaccessible |-> "i", Lake |-> "+", Ocean |-> " ",
   Glacier |-> "a", Desert |-> "d", Forest |-> "f", Grassland |-> "g",
   Hills |-> "h", Jungle |-> "j", Mountains |-> "m", Plains |-> "p",
   Swamp |-> "s", Tundra |-> "t"]

\* T_UNKNOWN, the null terrain pointer.
T_UNKNOWN == "T_UNKNOWN"

\* terrain2char with a NUL character for a name it does not list.
terrain2char_unlisted_nul(pterrain) ==
  IF pterrain = T_UNKNOWN THEN "i"
  ELSE IF pterrain \in DOMAIN TerrainChars THEN TerrainChars[pterrain]
  ELSE "NUL"

\* terrain2char(pterrain): pterrain is T_UNKNOWN or the untranslated name.
terrain2char(pterrain) ==
  IF pterrain = T_UNKNOWN THEN "i"
  ELSE IF pterrain \in DOMAIN TerrainChars THEN TerrainChars[pterrain]
  ELSE " "

\* The resource names resource2char knows, with their characters.
ResourceChars ==
  ("?animals:Game" :> "e") @@
  [Gold |-> "$", Iron |-> "/", Furs |-> "u", Coal |-> "c",
   Fish |-> "y", Fruit |-> "f", Gems |-> "g", Buffalo |-> "b", Wheat |-> "j",
   Oasis |-> "o", Peat |-> "a", Pheasant |-> "p", Resources |-> "r",
   Ivory |-> "i", Silk |-> "s", Spice |-> "t", Whales |-> "v", Wine |-> "w",
   Oil |-> "x"]

\* The null resource pointer.
NoResource == "NULL"

\* RESOURCE_NONE_IDENTIFIER of common/terrain.h.
RESOURCE_NONE_IDENTIFIER == " "

\* resource2char(presource): presource is NULL or the untranslated name.
resource2char(presource) ==
  IF presource = NoResource THEN RESOURCE_NONE_IDENTIFIER
  ELSE IF presource \in DOMAIN ResourceChars THEN ResourceChars[presource]
  ELSE " "

\* The members of enum unit_orders, enum direction8 and enum unit_activity.
unit_orders ==
  {"ORDER_MOVE", "ORDER_ACTIVITY", "ORDER_FULL_MP", "ORDER_BUILD_CITY",
   "ORDER_DISBAND", "ORDER_BUILD_WONDER", "ORDER_TRADE_ROUTE",
   "ORDER_HOMECITY", "ORDER_LAST"}

direction8 ==
  {"DIR8_NORTHWEST", "DIR8_NORTH", "DIR8_NORTHEAST", "DIR8_WEST",
   "DIR8_EAST", "DIR8_SOUTHWEST", "DIR8_SOUTH", "DIR8_SOUTHEAST"}

unit_activity ==
  {"ACTIVITY_IDLE", "ACTIVITY_POLLUTION", "ACTIVITY_OLD_ROAD",
   "ACTIVITY_MINE", "ACTIVITY_IRRIGATE", "ACTIVITY_FORTIFIED",
   "ACTIVITY_FORTRESS", "ACTIVITY_SENTRY", "ACTIVITY_OLD_RAILROAD",
   "ACTIVITY_PILLAGE", "ACTIVITY_GOTO", "ACTIVITY_EXPLORE",
   "ACTIVITY_TRANSFORM", "ACTIVITY_UNKNOWN", "ACTIVITY_AIRBASE",
   "ACTIVITY_FORTIFYING", "ACTIVITY_FALLOUT", "ACTIVITY_PATROL_UNUSED",
   "ACTIVITY_BASE", "ACTIVITY_GEN_ROAD", "ACTIVITY_CONVERT",
   "ACTIVITY_LAST"}

\* The case labels of order2char that return a character.
OrderChars ==
  [ORDER_MOVE |-> "m", ORDER_FULL_MP |-> "w", ORDER_ACTIVITY |-> "a",
   ORDER_BUILD_CITY |-> "b", ORDER_DISBAND |-> "d",
   ORDER_BUILD_WONDER |-> "u", ORDER_TRADE_ROUTE |-> "t",
   ORDER_HOMECITY |-> "h"]

\* order2char(order): '?' after the failed assertion for ORDER_LAST and
\* for a value that is no member.
order2char(order) ==
  IF order \in DOMAIN OrderChars THEN OrderChars[order] ELSE "?"

\* The case labels of dir2char.
DirChars ==
  [DIR8_NORTH |-> "8", DIR8_SOUTH |-> "2", DIR8_EAST |-> "6",
   DIR8_WEST |-> "4", DIR8_NORTHEAST |-> "9", DIR8_NORTHWEST |-> "7",
   DIR8_SOUTHEAST |-> "3", DIR8_SOUTHWEST |-> "1"]

\* dir2char(dir)
dir2char(dir) ==
  IF dir \in DOMAIN DirChars THEN DirChars[dir] ELSE "?"

\* The case labels of activity2char that return a character, the two
\* that return '?' included.
ActivityChars ==
  [ACTIVITY_IDLE |-> "w", ACTIVITY_POLLUTION |-> "p",
   ACTIVITY_OLD_ROAD |-> "r", ACTIVITY_MINE |-> "m",
   ACTIVITY_IRRIGATE |-> "i", ACTIVITY_FORTIFIED |-> "f",
   ACTIVITY_FORTRESS |-> "t", ACTIVITY_SENTRY |-> "s",
   ACTIVITY_OLD_RAILROAD |-> "l", ACTIVITY_PILLAGE |-> "e",
   ACTIVITY_GOTO |-> "g", ACTIVITY_EXPLORE |-> "x",
   ACTIVITY_TRANSFORM |-> "o", ACTIVITY_AIRBASE |-> "a",
   ACTIVITY_FORTIFYING |-> "y", ACTIVITY_FALLOUT |-> "u",
   ACTIVITY_BASE |-> "b", ACTIVITY_GEN_ROAD |-> "R",
   ACTIVITY_CONVERT |-> "c", ACTIVITY_UNKNOWN |-> "?",
   ACTIVITY_PATROL_UNUSED |-> "?"]

\* activity2char with 'r' for ACTIVITY_GEN_ROAD.
activity2char_one_case(activity) ==
  IF activity = "ACTIVITY_GEN_ROAD" THEN "r"
  ELSE IF activity \in DOMAIN ActivityChars THEN ActivityChars[activity]
  ELSE "?"

\* activity2char(activity)
activity2char(activity) ==
  IF activity \in DOMAIN ActivityChars THEN ActivityChars[activity] ELSE "?"

num_chars ==
  <<"0", "1", "2", "3", "4", "5", "6", "7", "8", "9", "a", "b", "c", "d",
    "e", "f", "g", "h", "i", "j", "k", "l", "m", "n", "o", "p", "q", "r",
    "s", "t", "u", "v", "w", "x", "y", "z", "A", "B", "C", "D", "E", "F",
    "G", "H", "I", "J", "K", "L", "M", "N", "O", "P", "Q", "R", "S", "T",
    "U", "V", "W", "X", "Y", "Z", "_", "-", "+">>

\* num2char(num): num is an unsigned int, a negative argument is converted
\* to a number of at least 2^31.
num2char(num) ==
  IF num < 0 \/ num >= Len(num_chars) THEN "?" ELSE num_chars[num + 1]

-----------------------------------------------------------------------------
(* The section file. *)

Key(path, a, b) == <<path, a, b, -1>>

Key3(path, a, b, c) == <<path, a, b, c>>

IntVal(n) == [k |-> "int", n |-> n, s |-> <<>>]

BoolVal(b) == [k |-> "bool", n |-> IF b THEN 1 ELSE 0, s |-> <<>>]

StrVal(s) == [k |-> "str", n |-> 0, s |-> s]

VecVal(v) == [k |-> "vec", n |-> Len(v), s |-> v]

Entry(key, val) == [key |-> key, val |-> val]

\* secfile_insert_int / _bool / _str / _str_vec: a new entry at the end.
secfile_insert(f, val, key) == Append(f, Entry(key, val))

HasKey(f, key) == \E i \in 1 .. Len(f) : f[i].key = key

\* secfile_replace_str: the entry of the key gets the value; a new entry
\* when the key is not in the file.
secfile_replace_str(f, s, key) ==
  IF HasKey(f, key)
  THEN [i \in 1 .. Len(f) |->
          IF f[i].key = key THEN Entry(key, StrVal(s)) ELSE f[i]]
  ELSE secfile_insert(f, StrVal(s), key)

\* The value of the first entry of the key.
Lookup(f, key) == f[CHOOSE i \in 1 .. Len(f) : f[i].key = key].val

\* The number of entries of the key.
KeyCount(f, key) == Cardinality({i \in 1 .. Len(f) : f[i].key = key})

-----------------------------------------------------------------------------
(* The map. *)

\* native_pos_to_tile(x, y): the index of the tile.
native_pos_to_tile(x, y) == x + y * map.xsize

\* The loop over _nat_x ending one column early.
SaveMapLine_short(GET_XY_CHAR, y) ==
  [x1 \in 1 .. map.xsize - 1 |-> GET_XY_CHAR[x1 - 1 + y * map.xsize]]

\* SAVE_MAP_CHAR(ptile, GET_XY_CHAR, secfile, secpath, ...): the file after
\* the macro and whether it ran to its end.  GET_XY_CHAR[t] is the value of
\* the macro argument for tile t.  The rows are written in order; the first
\* cell in row-major order whose character is not printable is a failure,
\* which leaves the enclosing function with the rows before its row written.
SaveMapLine(GET_XY_CHAR, y) ==
  [x1 \in 1 .. map.xsize |-> GET_XY_CHAR[native_pos_to_tile(x1 - 1, y)]]

SaveMapBadRows(GET_XY_CHAR) ==
  {y \in 0 .. map.ysize - 1 :
     \E x \in 0 .. map.xsize - 1 :
        ~fc_isprint(GET_XY_CHAR[native_pos_to_tile(x, y)])}

RECURSIVE SaveMapRows(_, _, _, _, _, _)
SaveMapRows(f, GET_XY_CHAR, path, a, y, last) ==
  IF y > last THEN f
  ELSE SaveMapRows(secfile_insert(f, StrVal(SaveMapLine(GET_XY_CHAR, y)),
                                  Key(path, a, y)),
                   GET_XY_CHAR, path, a, y + 1, last)

SAVE_MAP_CHAR(f, GET_XY_CHAR, path, a) ==
  LET bad == SaveMapBadRows(GET_XY_CHAR)
      ok == bad = {}
      last == IF ok THEN map.ysize - 1
              ELSE (CHOOSE y \in bad : \A z \in bad : y <= z) - 1
  IN [file |-> SaveMapRows(f, GET_XY_CHAR, path, a, 0, last), ok |-> ok]


-----------------------------------------------------------------------------
(* The world the save reads: rule set, map, players. *)

\* MAX_NUM_ITEMS (B_LAST), the size of the improvement buffers, scaled down.
MAX_NUM_ITEMS == 1

NoPlayer == -1

NoCity == -1

NoTile == -1

\* Terrain and resource kinds of the rule set; "Volcano" and "Amber" are
\* names the encoders do not list.
TerrainKinds == <<T_UNKNOWN, "Ocean", "Volcano", "Grassland", "Inaccessible",
                  "Lake", "Deep Ocean", "Hills">>

ResourceKinds == <<NoResource, "Gold", "Amber", "?animals:Game", "Oil">>

Pick(seq, n) == seq[(n % Len(seq)) + 1]

CityId(slot, i) == 7 + slot * (MaxCities + 1) + i

UnitId(slot, i) == 100 + 2 * slot + i

\* The entries worklists are made of, and the worklist of city i of a
\* player: the first (slot + 3 * i) % 4 entries.
WorklistItems ==
  <<[kind |-> "Building", value |-> "Barracks"],
    [kind |-> "Unit", value |-> "Settlers"],
    [kind |-> "Building", value |-> "City Walls"]>>

WorklistOf(slot, i) == SubSeq(WorklistItems, 1, (slot + 3 * i) % 4)

\* plr->attribute_block with data NULL.
NullData == <<-1>>

NoBlock == [data |-> NullData, length |-> 0]

\* An attribute block of n bytes.
AttributeBlock(n) ==
  [data |-> [i \in 1 .. n |-> (37 * i + n) % 256], length |-> n]

\* The number of units of the player of a slot.
UnitsOf(slot) == 2 - (slot % 2)

\* The tile unit i of the player of a slot stands on.
UnitTile(slot, i, ntiles) == (slot + i) % ntiles

\* The value ord_city and ord_map have before unit_ordering_calc in the
\* save runs: what an earlier ordering left in them.
OrdJunk == 7

\* The orders a unit can have in the model: every kind of order, the move
\* in two directions, the activity order with the base-building activity
\* (a base number with a character and one past num_chars), the
\* road-building activity and two others.  The fields an order does not use
\* hold values of other orders.
OrderKinds ==
  {[order |-> o, dir |-> "DIR8_SOUTH", activity |-> "ACTIVITY_BASE",
    base |-> 3, road |-> 4] :
     o \in unit_orders \ {"ORDER_MOVE", "ORDER_ACTIVITY", "ORDER_LAST"}}
  \cup {[order |-> "ORDER_MOVE", dir |-> d, activity |-> "ACTIVITY_GEN_ROAD",
          base |-> 3, road |-> 4] : d \in {"DIR8_NORTH", "DIR8_SOUTHWEST"}}
  \cup {[order |-> "ORDER_ACTIVITY", dir |-> "DIR8_SOUTH", activity |-> a,
          base |-> 1, road |-> 2] :
           a \in {"ACTIVITY_BASE", "ACTIVITY_GEN_ROAD", "ACTIVITY_MINE",
                  "ACTIVITY_IDLE"}}
  \cup {[order |-> "ORDER_ACTIVITY", dir |-> "DIR8_SOUTH",
          activity |-> "ACTIVITY_BASE", base |-> 70, road |-> 2]}

\* The orders of the first unit of the player of a slot in the save runs.
OrdersOf(slot) ==
  <<[order |-> "ORDER_MOVE", dir |-> "DIR8_NORTH",
     activity |-> "ACTIVITY_GEN_ROAD", base |-> 3, road |-> 4],
    [order |-> "ORDER_ACTIVITY", dir |-> "DIR8_SOUTH",
     activity |-> IF slot % 2 = 0 THEN "ACTIVITY_BASE" ELSE "ACTIVITY_GEN_ROAD",
     base |-> 1, road |-> 2],
    [order |-> "ORDER_FULL_MP", dir |-> "DIR8_SOUTH",
     activity |-> "ACTIVITY_BASE", base |-> 3, road |-> 4]>>

PlayerOf(slot, nc, ni, nt) ==
  [cities |-> [i1 \in 1 .. nc |->
                 [id |-> CityId(slot, i1 - 1),
                  built |-> BitsOf(slot + i1, ni),
                  worklist |-> WorklistOf(slot, i1 - 1),
                  citizens |-> [q \in 0 .. MaxSlots - 1 |->
                                  IF q = slot THEN i1
                                  ELSE (slot + i1 + q) % 3],
                  units_supported |->
                    IF i1 = 1 THEN <<UnitId(slot, 0)>> ELSE <<>>]],
   units |-> [i1 \in 1 .. UnitsOf(slot) |->
                [id |-> UnitId(slot, i1 - 1),
                 ord_city |-> OrdJunk, ord_map |-> OrdJunk,
                 has_orders |-> i1 = 1,
                 orders |-> IF i1 = 1 THEN OrdersOf(slot) ELSE <<>>]],
   inventions |-> BitsOf(slot + 1, nt),
   lost_wonders |-> BitsOf(slot + 2, ni),
   attribute_block |-> IF slot % 2 = 0 THEN AttributeBlock(2) ELSE NoBlock]

CityIds(slots, nc) == {CityId(p, i) : p \in slots, i \in 0 .. nc - 1}

TileOf(t, seed, W, H, nb, nr, ns, slots, nc) ==
  LET own == Pick(SetToSeq(slots \cup {NoPlayer}), t + seed)
  IN [terrain |-> Pick(TerrainKinds, t + seed),
      special |-> BitsOf((t + 1) * (seed + 1) * 7, ns),
      bases |-> BitsOf((t + 2) * (seed + 3) * 5, nb),
      roads |-> BitsOf((t + seed) * 11 + 3, nr),
      resource |-> Pick(ResourceKinds, t + 2 * seed),
      owner |-> own,
      claimer |-> IF own = NoPlayer THEN NoTile ELSE (t + 1) % (W * H),
      worked |-> Pick(SetToSeq(CityIds(slots, nc) \cup {NoCity}), t + seed + 1),
      known |-> {p \in slots : (t + p + seed) % 2 = 0},
      units |-> SetToSeq(UNION {{UnitId(p, i) :
                                   i \in {k \in 0 .. UnitsOf(p) - 1 :
                                            UnitTile(p, k, W * H) = t}} :
                                 p \in slots})]

\* The variables of the packing and loading runs when they are not running.
PackIdle == [on |-> FALSE]

LoadIdle == [on |-> FALSE]

\* The state before a save call of the world given by the parameters.
World(scen, isscen, scenpl, started, empty, W, H, nb, nr, ns, seed, slots, nc, ni, nt) ==
  /\ request = [scenario |-> scen]
  /\ game = [is_scenario |-> isscen, scenario_players |-> scenpl,
             started |-> started, citizen_nationality |-> seed % 2 = 1,
             num_base_types |-> nb,
             num_road_types |-> nr, S_LAST |-> ns,
             S_OLD_RIVER |-> IF ns > 0 THEN ns - 1 ELSE 0,
             improvement_count |-> ni, num_tech_types |-> nt,
             global_advances |-> BitsOf(seed + 1, nt),
             destroyed_wonders |-> BitsOf(seed + 2, ni)]
  /\ map = [empty |-> empty, xsize |-> W, ysize |-> H]
  /\ tiles = [t \in 0 .. W * H - 1 |->
                TileOf(t, seed, W, H, nb, nr, ns, slots, nc)]
  /\ players = [p \in slots |-> PlayerOf(p, nc, ni, nt)]
  /\ saving = [scenario |-> FALSE, save_players |-> FALSE,
               secfile_options |-> <<>>, live |-> FALSE]
  /\ sg_success = FALSE
  /\ file = <<>>
  /\ pc = "idle"
  /\ plr = NoPlayer
  /\ entered = <<>>
  /\ pack = PackIdle
  /\ load = LoadIdle

\* The worlds of the orchestration runs: every combination of the flags
\* the stages branch on, every player and city count, an improvement count
\* below, at and above the buffer size.  Flags the code does not read
\* (scenario data without a scenario save, the map of an empty map, the
\* cities of no player) have one value.
Init ==
  \E scen \in BOOLEAN, isscen \in BOOLEAN, scenpl \in BOOLEAN,
     started \in BOOLEAN, empty \in BOOLEAN,
     H \in 1 .. MaxY, nb \in {0, MaxTypes},
     slots \in SUBSET (0 .. MaxSlots - 1), nc \in 0 .. MaxCities,
     ni \in MAX_NUM_ITEMS - 1 .. MAX_NUM_ITEMS + 1 :
    /\ ~scen => ~isscen /\ ~scenpl
    /\ empty => H = 1 /\ nb = 0
    /\ slots = {} => nc = 0
    /\ World(scen, isscen, scenpl, started, empty, MaxX, H, nb,
             MaxTypes - nb, MaxTypes, 0, slots, nc, ni, 2)

\* The worlds of the grid runs: every map size, every class size, every
\* tile pattern, with and without saved players.
InitGrid ==
  \E started \in BOOLEAN, W \in 1 .. MaxX, H \in 1 .. MaxY,
     nb \in 0 .. MaxTypes, ns \in 0 .. MaxTypes, seed \in 0 .. MaxSeed :
    World(FALSE, FALSE, FALSE, started, FALSE, W, H, nb, MaxTypes - nb, ns,
          seed, {0}, 1, seed % (MAX_NUM_ITEMS + 1), seed % 3)

-----------------------------------------------------------------------------
(* The stages of a save call.  A stage maps the state st = [file, ok,      *)
(* saving] it is called with (ok is sg_success) to the state it returns    *)
(* with.                                                                   *)

St == [file |-> file, ok |-> sg_success, saving |-> saving]

Ins(st, val, key) == [st EXCEPT !.file = secfile_insert(st.file, val, key)]

\* The rule name of the symbol with index i of a class.
RuleName(class, i) == <<class, i>>

\* A_NONE, the index of the technology that is no technology.
A_NONE == 0

\* The entry of index i in the buffer of names of a class: "A_NONE" for
\* index A_NONE of the technologies, and the rule name of the symbol.
ClassName(class, i) ==
  IF class = "technology" /\ i = A_NONE THEN <<"A_NONE", i>>
  ELSE RuleName(class, i)

\* The name vector of a class of n symbols: element i + 1 names index i.
NameVector(class, n) == [i1 \in 1 .. n |-> ClassName(class, i1 - 1)]

\* A bit string whose terminating NUL is put one position late.
BitString_late_nul(S, n) ==
  [i1 \in 1 .. n + 1 |-> IF (i1 - 1) \in S THEN "1" ELSE "0"]

\* A string of '0' / '1', position i telling whether index i is in the set.
BitString(S, n) == [i1 \in 1 .. n |-> IF (i1 - 1) \in S THEN "1" ELSE "0"]

\* compat[]: the savegame versions, entry 0 the dummy.
\* The table with two of its entries exchanged.
compat_unordered == <<0, 10, 3, 20>>

compat == <<0, 3, 10, 20>>

compat_num == Len(compat)

\* The index of the entry before the last one.
compat_current_before_last == compat_num - 2

compat_current == compat_num - 1

savefile_options_default == <<" +version2">>

\* sg_save_savefile_options(saving, option)
sg_save_savefile_options(st, option) ==
  IF ~st.ok THEN st
  ELSE LET opts == st.saving.secfile_options \o option
       IN [st EXCEPT !.saving.secfile_options = opts,
                     !.file = secfile_replace_str(st.file, opts,
                                Key("savefile.options", -1, -1))]

\* ACTIVITY_LAST, the number of activities, and TRAIT_COUNT, the number of
\* traits.
ACTIVITY_LAST == Cardinality(unit_activity \ {"ACTIVITY_LAST"})

TRAIT_COUNT == 3

\* An order table whose name vector lacks its last entry.
OrderTable_short(st, class, n, always) ==
  LET st1 == Ins(st, IntVal(n), Key("savefile." \o class \o "_size", -1, -1))
  IN IF n > 0 \/ always
     THEN Ins(st1, VecVal(NameVector(class, IF n > 0 THEN n - 1 ELSE n)),
              Key("savefile." \o class \o "_vector", -1, -1))
     ELSE st1

\* An order table of sg_save_savefile: the size, and the names when n > 0
\* (always is TRUE for the classes written without that test).
OrderTable(st, class, n, always) ==
  LET st1 == Ins(st, IntVal(n), Key("savefile." \o class \o "_size", -1, -1))
  IN IF n > 0 \/ always
     THEN Ins(st1, VecVal(NameVector(class, n)),
              Key("savefile." \o class \o "_vector", -1, -1))
     ELSE st1

\* sg_save_scenario(saving)
sg_save_scenario(st) ==
  IF ~st.ok THEN st
  ELSE IF ~st.saving.scenario \/ ~game.is_scenario
  THEN Ins(st, BoolVal(FALSE), Key("scenario.is_scenario", -1, -1))
  ELSE LET s1 == Ins(st, BoolVal(TRUE), Key("scenario.is_scenario", -1, -1))
           s2 == Ins(s1, StrVal(<<"name">>), Key("scenario.name", -1, -1))
           s3 == Ins(s2, BoolVal(game.scenario_players),
                     Key("scenario.players", -1, -1))
       IN Ins(s3, BoolVal(FALSE), Key("scenario.startpos_nations", -1, -1))

\* sg_save_savefile(saving)
sg_save_savefile(st) ==
  IF ~st.ok THEN st
  ELSE LET s1 == sg_save_savefile_options(st, savefile_options_default)
           s2 == Ins(s1, IntVal(compat[compat_current + 1]),
                     Key("savefile.version", -1, -1))
           s3 == Ins(s2, StrVal(<<"reason">>), Key("savefile.reason", -1, -1))
           s4 == Ins(s3, StrVal(<<"LT49">>), Key("savefile.rulesetdir", -1, -1))
           s5 == OrderTable(s4, "improvement", game.improvement_count, FALSE)
           s6 == OrderTable(s5, "technology", game.num_tech_types, FALSE)
           s6a == OrderTable(s6, "activities", ACTIVITY_LAST,
                             ACTIVITY_LAST > 0)
           s6b == OrderTable(s6a, "trait", TRAIT_COUNT, TRUE)
           s7 == OrderTable(s6b, "specials", S_LAST, TRUE)
           s8 == OrderTable(s7, "bases", game.num_base_types, FALSE)
       IN OrderTable(s8, "roads", game.num_road_types, FALSE)

\* game_was_started()
game_was_started == game.started

\* The value without the test of game_was_started().
save_players_value_any_state(st) ==
  IF st.saving.scenario THEN game.scenario_players ELSE TRUE

\* The value sg_save_game gives saving->save_players.
save_players_value(st) ==
  IF ~game_was_started THEN FALSE
  ELSE IF st.saving.scenario THEN game.scenario_players
  ELSE TRUE

\* sg_save_game(saving)
sg_save_game(st) ==
  IF ~st.ok THEN st
  ELSE LET s1 == Ins(st, IntVal(20499), Key("game.version", -1, -1))
           s2 == Ins(s1, StrVal(BitString(game.global_advances,
                                          game.num_tech_types)),
                     Key("game.global_advances", -1, -1))
           s3 == [s2 EXCEPT !.saving.save_players = save_players_value(st)]
       IN Ins(s3, BoolVal(s3.saving.save_players),
              Key("game.save_players", -1, -1))

\* sg_save_random(saving): the random state is never saved.
sg_save_random(st) ==
  IF ~st.ok THEN st
  ELSE Ins(st, BoolVal(FALSE), Key("random.save", -1, -1))

\* sg_save_script(saving): script_server_state_save writes the script section.
sg_save_script(st) ==
  IF ~st.ok THEN st
  ELSE Ins(st, StrVal(<<"vars">>), Key("script.vars", -1, -1))

\* sg_save_settings(saving): settings_game_save writes the settings section.
sg_save_settings(st) ==
  IF ~st.ok THEN st
  ELSE Ins(st, IntVal(0), Key("settings.set_count", -1, -1))

\* map_is_empty()
map_is_empty == map.empty

\* sg_save_map(saving): whether the body runs, i.e. the parts are called.
sg_save_map_calls_parts(st) == st.ok /\ ~map_is_empty

\* sg_save_map(saving), up to the calls of its parts.
sg_save_map(st) ==
  IF ~st.ok THEN st
  ELSE IF map_is_empty THEN st
  ELSE Ins(st, BoolVal(TRUE), Key("map.have_huts", -1, -1))

\* The state after a SAVE_MAP_CHAR inside a stage.
SaveMapChar(st, GET_XY_CHAR, path, a) ==
  LET r == SAVE_MAP_CHAR(st.file, GET_XY_CHAR, path, a)
  IN [st EXCEPT !.file = r.file, !.ok = r.ok]

\* sg_save_map_tiles(saving): the terrain lines (sprites and labels of
\* tiles are not modelled).
sg_save_map_tiles(st) ==
  IF ~st.ok THEN st
  ELSE SaveMapChar(st, [t \in DOMAIN tiles |-> terrain2char(tiles[t].terrain)],
                   "map.t", -1)

\* sg_save_map_startpos(saving): returns before writing anything.
sg_save_map_startpos(st) == st

RECURSIVE SaveGroups(_, _, _, _)
\* The body of a halfbyte_iterate loop: SAVE_MAP_CHAR for each group in
\* turn, GET_J_CHAR[j] its macro argument for group j; a failure leaves the
\* function.
SaveGroups(st, groups, GET_J_CHAR, path) ==
  IF groups = <<>> \/ ~st.ok THEN st
  ELSE LET j == Head(groups)
       IN SaveGroups(SaveMapChar(st, GET_J_CHAR[j], path, j), Tail(groups),
                     GET_J_CHAR, path)

\* sg_save_map_tiles_bases(saving)
sg_save_map_tiles_bases(st) ==
  IF ~st.ok THEN st
  ELSE SaveGroups(st, halfbyte_iterate(game.num_base_types),
                  [j \in GroupsOf(game.num_base_types) |->
                     [t \in DOMAIN tiles |->
                        sg_bases_get(tiles[t].bases, bases_mod(j))]],
                  "map.b")

\* sg_save_map_tiles_roads(saving)
sg_save_map_tiles_roads(st) ==
  IF ~st.ok THEN st
  ELSE SaveGroups(st, halfbyte_iterate(game.num_road_types),
                  [j \in GroupsOf(game.num_road_types) |->
                     [t \in DOMAIN tiles |->
                        sg_roads_get(tiles[t].roads, roads_mod(j))]],
                  "map.r")

\* sg_save_map_tiles_specials(saving, rivers_overlay)
sg_save_map_tiles_specials(st, rivers_overlay) ==
  IF ~st.ok THEN st
  ELSE SaveGroups(st, halfbyte_iterate(S_LAST),
                  [j \in GroupsOf(S_LAST) |->
                     [t \in DOMAIN tiles |->
                        sg_special_get(tiles[t].special,
                                       specials_mod(j, rivers_overlay))]],
                  "map.spe")

\* sg_save_map_tiles_resources(saving)
sg_save_map_tiles_resources(st) ==
  IF ~st.ok THEN st
  ELSE SaveMapChar(st,
                   [t \in DOMAIN tiles |-> resource2char(tiles[t].resource)],
                   "map.res", -1)

RECURSIVE TokenLine(_, _, _, _)
\* The strcat loop of the token lines: the tokens of row y from column x
\* on (token[t] the token of tile t), a "," after the token of column x
\* when comma[x] holds.
TokenLine(token, comma, x, y) ==
  IF x >= map.xsize THEN <<>>
  ELSE token[native_pos_to_tile(x, y)]
       \o (IF comma[x] THEN <<",">> ELSE <<>>)
       \o TokenLine(token, comma, x + 1, y)

RECURSIVE TokenRows(_, _, _, _, _)
TokenRows(st, token, comma, path, y) ==
  IF y >= map.ysize THEN st
  ELSE TokenRows(Ins(st, StrVal(TokenLine(token, comma, 0, y)),
                     Key(path, -1, y)),
                 token, comma, path, y + 1)

\* sg_save_map_owner with a comma after every token.
sg_save_map_owner_comma_each(st) ==
  IF ~st.ok THEN st
  ELSE IF st.saving.scenario /\ ~st.saving.save_players THEN st
  ELSE LET comma == [x \in 0 .. map.xsize - 1 |-> x < map.xsize]
           owner == [t \in DOMAIN tiles |->
                       IF ~st.saving.save_players \/ tiles[t].owner = NoPlayer
                       THEN <<"-">> ELSE fc_snprintf_d(tiles[t].owner)]
           source == [t \in DOMAIN tiles |->
                        IF tiles[t].claimer = NoTile
                        THEN <<"-">> ELSE fc_snprintf_d(tiles[t].claimer)]
       IN TokenRows(TokenRows(st, owner, comma, "map.owner", 0),
                    source, comma, "map.source", 0)

\* sg_save_map_owner(saving)
sg_save_map_owner(st) ==
  IF ~st.ok THEN st
  ELSE IF st.saving.scenario /\ ~st.saving.save_players THEN st
  ELSE LET comma == [x \in 0 .. map.xsize - 1 |-> x + 1 < map.xsize]
           owner == [t \in DOMAIN tiles |->
                       IF ~st.saving.save_players \/ tiles[t].owner = NoPlayer
                       THEN <<"-">> ELSE fc_snprintf_d(tiles[t].owner)]
           source == [t \in DOMAIN tiles |->
                        IF tiles[t].claimer = NoTile
                        THEN <<"-">> ELSE fc_snprintf_d(tiles[t].claimer)]
       IN TokenRows(TokenRows(st, owner, comma, "map.owner", 0),
                    source, comma, "map.source", 0)

\* sg_save_map_worked(saving)
sg_save_map_worked(st) ==
  IF ~st.ok THEN st
  ELSE IF st.saving.scenario /\ ~st.saving.save_players THEN st
  ELSE LET comma == [x \in 0 .. map.xsize - 1 |-> x < map.xsize]
           worked == [t \in DOMAIN tiles |->
                        IF tiles[t].worked = NoCity
                        THEN <<"-">> ELSE fc_snprintf_d(tiles[t].worked)]
       IN TokenRows(st, worked, comma, "map.worked", 0)

\* player_slot_is_used(player_slot_by_number(n))
player_slot_is_used(n) == n \in DOMAIN players

\* player_slot_max_used_number()
player_slot_max_used_number ==
  IF DOMAIN players = {} THEN 0
  ELSE CHOOSE n \in DOMAIN players : \A m \in DOMAIN players : m <= n

\* The known word with the bits of the players of every block.
KnownWord_any_block(l, t) == {p % 32 : p \in tiles[t].known}

\* known[l * MAP_INDEX_SIZE + tile_index(ptile)]: bit p % 32 for every
\* player p of block l that knows the tile.  The unsigned 32-bit word is
\* the set of its set bits.
KnownWord(l, t) ==
  {p % 32 : p \in {q \in tiles[t].known : q \div 32 = l}}

\* bin2ascii_hex(value, halfbyte_wanted) of a word given by its set bits.
KnownDigit(bits, halfbyte_wanted) ==
  bin2ascii_hex(SumBits({b - 4 * halfbyte_wanted :
                           b \in bits \cap (4 * halfbyte_wanted ..
                                            4 * halfbyte_wanted + 3)}), 0)

RECURSIVE SaveKnown(_, _, _)
\* The loops over l and j of sg_save_map_known, g = l * 8 + j: a group is
\* saved when one of its four player slots is in use.
SaveKnown(st, g, groups) ==
  IF g >= groups \/ ~st.ok THEN st
  ELSE LET chars == [t \in DOMAIN tiles |->
                       KnownDigit(KnownWord(g \div 8, t), g % 8)]
           used == \E i \in 0 .. 3 : player_slot_is_used(4 * g + i)
       IN SaveKnown(IF used THEN SaveMapChar(st, chars, "map.k", g) ELSE st,
                    g + 1, groups)

\* sg_save_map_known(saving)
sg_save_map_known(st) ==
  IF ~st.ok THEN st
  ELSE IF ~st.saving.save_players
  THEN Ins(st, BoolVal(FALSE), Key("game.save_known", -1, -1))
  ELSE LET lines == player_slot_max_used_number \div 32 + 1
       IN SaveKnown(Ins(st, BoolVal(TRUE), Key("game.save_known", -1, -1)),
                    0, lines * 8)

\* The places <<c, j>> of a unit in lists: list c holds the unit at
\* position j, counted from 0.
PlacesOf(lists, id) ==
  {cj \in UNION {{<<c, j>> : j \in 0 .. Len(lists[c]) - 1} :
                   c \in DOMAIN lists} :
     lists[cj[1]][cj[2] + 1] = id}

\* The value the iteration of the lists leaves in the ord field of a unit:
\* its position in the last list that holds it, and the value before the
\* iteration when no list holds it.
OrdOf(lists, id, before) ==
  LET at == PlacesOf(lists, id)
  IN IF at = {} THEN before
     ELSE (CHOOSE cj \in at : \A o \in at : o[1] <= cj[1])[2]

\* unit_ordering_calc without the loop that sets ord_city to 0.
unit_ordering_calc_noreset(pl, tl) ==
  [p \in DOMAIN pl |->
     [pl[p] EXCEPT !.units =
        [i \in 1 .. Len(pl[p].units) |->
           LET punit == pl[p].units[i]
               supported == [c \in 1 .. Len(pl[p].cities) |->
                               pl[p].cities[c].units_supported]
               standing == [t \in DOMAIN tl |-> tl[t].units]
           IN [punit EXCEPT
                 !.ord_city = OrdOf(supported, punit.id, punit.ord_city),
                 !.ord_map = OrdOf(standing, punit.id, punit.ord_map)]]]]

\* unit_ordering_calc(): the players and their units after the call.
unit_ordering_calc(pl, tl) ==
  [p \in DOMAIN pl |->
     [pl[p] EXCEPT !.units =
        [i \in 1 .. Len(pl[p].units) |->
           LET punit == pl[p].units[i]
               supported == [c \in 1 .. Len(pl[p].cities) |->
                               pl[p].cities[c].units_supported]
               standing == [t \in DOMAIN tl |-> tl[t].units]
           IN [punit EXCEPT
                 !.ord_city = OrdOf(supported, punit.id, 0),
                 !.ord_map = OrdOf(standing, punit.id, punit.ord_map)]]]]

\* The test of sg_save_players without its scenario part.
sg_save_players_calls_parts_started(st) ==
  st.ok /\ game.started

\* sg_save_players(saving): whether the body runs, i.e. the players are
\* iterated.
sg_save_players_calls_parts(st) ==
  st.ok /\ ~((st.saving.scenario /\ ~st.saving.save_players)
             \/ ~game_was_started)

\* sg_save_players(saving), up to the iteration of the players.
sg_save_players(st) ==
  IF ~sg_save_players_calls_parts(st) THEN st
  ELSE LET s1 == Ins(st, IntVal(Cardinality(DOMAIN players)),
                     Key("players.nplayers", -1, -1))
           s2 == Ins(s1, StrVal(BitString(game.destroyed_wonders,
                                          game.improvement_count)),
                     Key("players.destroyed_wonders", -1, -1))
       IN Ins(s2, IntVal(0), Key("players.identity_number_used", -1, -1))

\* sg_save_player_main(saving, plr)
sg_save_player_main(st, p) ==
  IF ~st.ok THEN st
  ELSE LET s1 == Ins(st, StrVal(<<"name">>), Key("player.name", p, -1))
           s2 == Ins(s1, StrVal(BitString(players[p].inventions,
                                          game.num_tech_types)),
                     Key("player.research.done", p, -1))
       IN Ins(s2, StrVal(BitString(players[p].lost_wonders,
                                   game.improvement_count)),
              Key("player.lost_wonders", p, -1))

\* sizeof(impr_buf) of sg_save_player_cities.
impr_buf_size == MAX_NUM_ITEMS + 1

\* The test strlen(impr_buf) < sizeof(impr_buf) of sg_save_player_cities.
\* The buffer is filled in bounds when improvement_count() fits it; it is
\* written past its end otherwise, and detected holds the cities (by their
\* position i) for which the test then sees the overlong string.
impr_buf_ok(i, detected) ==
  game.improvement_count < impr_buf_size \/ i \notin detected

\* destroyed[], lost[] and impr_buf[] hold B_LAST + 1 characters: the
\* terminating NUL is written past their end when improvement_count()
\* exceeds B_LAST.
impr_overflow == game.improvement_count > MAX_NUM_ITEMS

\* MAX_LEN_WORKLIST, the size of the entries of a worklist.
MAX_LEN_WORKLIST == 64

RECURSIVE WorklistSlots(_, _, _, _, _, _)
\* The two loops of worklist_save: the slots from k up to last - 1, a slot
\* below the length of the worklist holding the kind and the name of its
\* entry, a slot at or past it two empty strings.
WorklistSlots(st, pwl, p, i, k, last) ==
  IF k >= last THEN st
  ELSE LET kind == IF k < Len(pwl) THEN <<pwl[k + 1].kind>> ELSE <<>>
           value == IF k < Len(pwl) THEN <<pwl[k + 1].value>> ELSE <<>>
           s1 == Ins(st, StrVal(kind), Key3("player.c.wl_kind", p, i, k))
           s2 == Ins(s1, StrVal(value), Key3("player.c.wl_value", p, i, k))
       IN WorklistSlots(s2, pwl, p, i, k + 1, last)

\* worklist_save with the worklist's own length in place of max_length.
worklist_save_unpadded(st, pwl, max_length, p, i) ==
  LET s1 == Ins(st, IntVal(Len(pwl)), Key("player.c.wl_length", p, i))
  IN WorklistSlots(s1, pwl, p, i, 0, Len(pwl))

\* worklist_save(file, pwl, max_length, path) for city i of player p: the
\* padding is left out when fc_assert_ret(max_length <= MAX_LEN_WORKLIST)
\* fails.
worklist_save(st, pwl, max_length, p, i) ==
  LET s1 == Ins(st, IntVal(Len(pwl)), Key("player.c.wl_length", p, i))
  IN WorklistSlots(s1, pwl, p, i, 0,
                   IF max_length <= MAX_LEN_WORKLIST /\ max_length > Len(pwl)
                   THEN max_length ELSE Len(pwl))

\* wlist_max_length of sg_save_player_cities: the length of the longest
\* worklist of the player's cities.
wlist_max_length(p) ==
  LET lens == {Len(players[p].cities[i1].worklist) :
                 i1 \in 1 .. Len(players[p].cities)} \cup {0}
  IN CHOOSE m \in lens : \A n \in lens : n <= m

\* citizens_nation_get(pcity, pplayer->slot)
citizens_nation_get(pcity, q) == pcity.citizens[q]

\* The nations found in the first city of the player only.
nations_first_city(p) ==
  {q \in DOMAIN players :
     /\ game.citizen_nationality
     /\ players[p].cities # <<>>
     /\ citizens_nation_get(players[p].cities[1], q) # 0}

\* nations[] of sg_save_player_cities after the first city_list_iterate:
\* the players with citizens in one of the cities of player p; the array
\* is neither set nor read when citizen nationality is disabled.
nations(p) ==
  {q \in DOMAIN players :
     /\ game.citizen_nationality
     /\ \E i1 \in 1 .. Len(players[p].cities) :
          citizens_nation_get(players[p].cities[i1], q) # 0}

RECURSIVE SaveCitizens(_, _, _, _, _)
\* The players_iterate at the end of a city of sg_save_player_cities, over
\* the players qs in increasing order.
SaveCitizens(st, pcity, p, i, qs) ==
  IF qs = <<>> THEN st
  ELSE SaveCitizens(IF Head(qs) \in nations(p)
                    THEN Ins(st, IntVal(citizens_nation_get(pcity, Head(qs))),
                             Key3("player.c.citizen", p, i, Head(qs)))
                    ELSE st,
                    pcity, p, i, Tail(qs))

RECURSIVE SaveCities(_, _, _, _)
\* The second city_list_iterate of sg_save_player_cities, from city i on.
SaveCities(st, p, i, detected) ==
  IF i >= Len(players[p].cities) THEN st
  ELSE LET pcity == players[p].cities[i + 1]
           s1 == Ins(st, IntVal(pcity.id), Key("player.c.id", p, i))
       IN IF ~impr_buf_ok(i, detected) THEN [s1 EXCEPT !.ok = FALSE]
          ELSE LET s2 == Ins(s1, StrVal(BitString(pcity.built,
                                                  game.improvement_count)),
                             Key("player.c.improvements", p, i))
                   s3 == worklist_save(s2, pcity.worklist,
                                       wlist_max_length(p), p, i)
                   s4 == IF game.citizen_nationality
                         THEN SaveCitizens(s3, pcity, p, i,
                                           SetToSeq(DOMAIN players))
                         ELSE s3
               IN SaveCities(s4, p, i + 1, detected)

\* sg_save_player_cities(saving, plr)
sg_save_player_cities(st, p, detected) ==
  IF ~st.ok THEN st
  ELSE SaveCities(Ins(st, IntVal(Len(players[p].cities)),
                      Key("player.ncities", p, -1)),
                  p, 0, detected)

\* The five buffers of the orders of a unit after the loop over j.
orders_buf(list) == [j \in 1 .. Len(list) |-> order2char(list[j].order)]

dir_buf(list) ==
  [j \in 1 .. Len(list) |->
     IF list[j].order = "ORDER_MOVE" THEN dir2char(list[j].dir) ELSE "?"]

act_buf(list) ==
  [j \in 1 .. Len(list) |->
     IF list[j].order = "ORDER_ACTIVITY"
     THEN activity2char(list[j].activity) ELSE "?"]

base_buf(list) ==
  [j \in 1 .. Len(list) |->
     IF list[j].order = "ORDER_ACTIVITY"
        /\ list[j].activity = "ACTIVITY_BASE"
     THEN num2char(list[j].base) ELSE "?"]

\* road_buf with the test of the road-building activity left out.
road_buf_any_activity(list) ==
  [j \in 1 .. Len(list) |->
     IF list[j].order = "ORDER_ACTIVITY"
     THEN num2char(list[j].road) ELSE "?"]

road_buf(list) ==
  [j \in 1 .. Len(list) |->
     IF list[j].order = "ORDER_ACTIVITY"
        /\ list[j].activity # "ACTIVITY_BASE"
        /\ list[j].activity = "ACTIVITY_GEN_ROAD"
     THEN num2char(list[j].road) ELSE "?"]

\* The order keys of a unit, in the order of the inserts.
OrderKeys ==
  <<"player.u.orders_length", "player.u.orders_index",
    "player.u.orders_repeat", "player.u.orders_vigilant",
    "player.u.orders_last_move_safe", "player.u.orders_list",
    "player.u.dir_list", "player.u.activity_list", "player.u.base_list",
    "player.u.road_list">>

RECURSIVE InsAll(_, _, _, _, _)
\* The inserts of the values vals under the keys paths, one after the other.
InsAll(st, paths, vals, p, i) ==
  IF paths = <<>> THEN st
  ELSE InsAll(Ins(st, Head(vals), Key(Head(paths), p, i)),
              Tail(paths), Tail(vals), p, i)

\* The two branches of if (punit->has_orders) in sg_save_player_units.
\* The units with orders of the model have orders.index 0, repeat and
\* last_order_move_is_safe TRUE, vigilant FALSE.
SaveUnitOrders(st, punit, p, i) ==
  IF punit.has_orders
  THEN InsAll(st, OrderKeys,
              <<IntVal(Len(punit.orders)), IntVal(0), BoolVal(TRUE),
                BoolVal(FALSE), BoolVal(TRUE),
                StrVal(orders_buf(punit.orders)),
                StrVal(dir_buf(punit.orders)),
                StrVal(act_buf(punit.orders)),
                StrVal(base_buf(punit.orders)),
                StrVal(road_buf(punit.orders))>>, p, i)
  ELSE InsAll(st, OrderKeys,
              <<IntVal(0), IntVal(0), BoolVal(FALSE), BoolVal(FALSE),
                BoolVal(FALSE), StrVal(<<"-">>), StrVal(<<"-">>),
                StrVal(<<"-">>), StrVal(<<"-">>), StrVal(<<"-">>)>>, p, i)

RECURSIVE SaveUnits(_, _, _)
\* unit_list_iterate of sg_save_player_units, from unit i on.
SaveUnits(st, p, i) ==
  IF i >= Len(players[p].units) THEN st
  ELSE LET punit == players[p].units[i + 1]
           s1 == Ins(st, IntVal(punit.id), Key("player.u.id", p, i))
           s2 == Ins(s1, IntVal(punit.ord_map), Key("player.u.ord_map", p, i))
           s3 == Ins(s2, IntVal(punit.ord_city),
                     Key("player.u.ord_city", p, i))
       IN SaveUnits(SaveUnitOrders(s3, punit, p, i), p, i + 1)

\* sg_save_player_units without sg_check_ret.
sg_save_player_units_unchecked(st, p) ==
  SaveUnits(Ins(st, IntVal(Len(players[p].units)),
                Key("player.nunits", p, -1)),
            p, 0)

\* sg_save_player_units(saving, plr)
sg_save_player_units(st, p) ==
  IF ~st.ok THEN st
  ELSE SaveUnits(Ins(st, IntVal(Len(players[p].units)),
                     Key("player.nunits", p, -1)),
                 p, 0)

\* quote_block(data, length): the decimal length, ':' and for each byte two
\* hex digits and a space.
quote_block(data, length) ==
  LET head == Dec(length) \o <<":">>
  IN [k \in 1 .. Len(head) + 3 * length |->
        IF k <= Len(head) THEN head[k]
        ELSE LET byte == data[((k - Len(head) - 1) \div 3) + 1]
                 at == (k - Len(head) - 1) % 3
             IN IF at = 0 THEN hex_chars[(byte \div 16) + 1]
                ELSE IF at = 1 THEN hex_chars[(byte % 16) + 1]
                ELSE " "]

\* strchr(quoted, ':') - quoted
strchr_colon(quoted) ==
  (CHOOSE k \in 1 .. Len(quoted) :
     quoted[k] = ":" /\ \A m \in 1 .. k - 1 : quoted[m] # ":") - 1

PART_SIZE == 3 * 256

PART_ADJUST == 3

\* parts of sg_save_player_attributes.
attribute_parts(bytes_left, bytes_adjust) ==
  IF bytes_left - bytes_adjust > PART_SIZE
  THEN 1 + ((bytes_left - bytes_adjust - 1) \div PART_SIZE)
  ELSE 1

RECURSIVE AttributeParts(_, _, _, _, _, _)
\* for (; current_part_nr < parts; current_part_nr++): quoted_at is the
\* offset into quoted.  The state after the loop and bytes_left.
AttributeParts(st, p, quoted, quoted_at, bytes_left, parts_from) ==
  IF parts_from[1] >= parts_from[2] THEN [st |-> st, bytes_left |-> bytes_left]
  ELSE LET size_of_current_part == MIN(bytes_left, PART_SIZE)
           part == SubSeq(quoted, quoted_at + 1,
                          quoted_at + size_of_current_part)
       IN AttributeParts(Ins(st, StrVal(part),
                             Key("player.attribute_v2_block_data.part", p,
                                 parts_from[1])),
                         p, quoted, quoted_at + size_of_current_part,
                         bytes_left - size_of_current_part,
                         <<parts_from[1] + 1, parts_from[2]>>)

\* The body of if (plr->attribute_block.data): the state after it and
\* bytes_left at fc_assert(bytes_left == 0).
SaveAttributeBlock(st, p) ==
  LET block == players[p].attribute_block
      quoted == quote_block(block.data, block.length)
      bytes_left == Len(quoted)
      bytes_at_colon == 1 + strchr_colon(quoted)
      bytes_adjust == bytes_at_colon % PART_ADJUST
      parts == attribute_parts(bytes_left, bytes_adjust)
      s1 == Ins(st, IntVal(block.length),
                Key("player.attribute_v2_block_length", p, -1))
      s2 == Ins(s1, IntVal(bytes_left),
                Key("player.attribute_v2_block_length_quoted", p, -1))
      s3 == Ins(s2, IntVal(parts),
                Key("player.attribute_v2_block_parts", p, -1))
      first == PART_SIZE + bytes_adjust
  IN IF parts > 1
     THEN AttributeParts(Ins(s3, StrVal(SubSeq(quoted, 1, first)),
                             Key("player.attribute_v2_block_data.part", p, 0)),
                         p, quoted, first, bytes_left - first, <<1, parts>>)
     ELSE AttributeParts(s3, p, quoted, 0, bytes_left, <<0, parts>>)

\* sg_save_player_attributes(saving, plr)
sg_save_player_attributes(st, p) ==
  IF ~st.ok \/ players[p].attribute_block.data = NullData THEN st
  ELSE SaveAttributeBlock(st, p).st

\* sg_save_mapimg without sg_check_ret.
sg_save_mapimg_unchecked(st) ==
  [st EXCEPT !.file = secfile_insert(st.file, IntVal(0),
                                     Key("mapimg.count", -1, -1))]

\* sg_save_mapimg(saving): mapimg_count() is 0.
sg_save_mapimg(st) ==
  IF ~st.ok THEN st
  ELSE Ins(st, IntVal(0), Key("mapimg.count", -1, -1))

\* sg_save_sanitycheck(saving)
sg_save_sanitycheck(st) == st

-----------------------------------------------------------------------------
(* savegame2_save_real: the calls of the stages, in program order.  pc is  *)
(* the function called next.                                               *)

world == <<game, map, tiles, players, request, pack, load>>

\* The call of stage function fn (for player p), returning with state r.
Call(fn, p, r, next) ==
  /\ pc = fn
  /\ entered' = Append(entered, [fn |-> fn, p |-> p])
  /\ file' = r.file
  /\ sg_success' = r.ok
  /\ saving' = r.saving
  /\ pc' = next

\* The write past the end of a buffer stops the program.
Abort(fn) ==
  /\ pc = fn
  /\ pc' = "aborted"
  /\ UNCHANGED <<entered, file, sg_success, saving>>

\* players_iterate: the first used slot, the used slot after p.
NoNext == -1

FirstPlayer ==
  IF DOMAIN players = {} THEN NoNext
  ELSE CHOOSE n \in DOMAIN players : \A m \in DOMAIN players : n <= m

NextPlayer(p) ==
  LET later == {n \in DOMAIN players : n > p}
  IN IF later = {} THEN NoNext
     ELSE CHOOSE n \in later : \A m \in later : n <= m

\* The start of a call that leaves sg_success as the last call left it.
Call_savegame2_save_real_no_reset ==
  /\ pc = "idle"
  /\ saving' = [scenario |-> request.scenario, save_players |-> FALSE,
                secfile_options |-> <<>>, live |-> TRUE]
  /\ pc' = "sg_save_scenario"
  /\ UNCHANGED <<file, entered, plr, sg_success>>
  /\ UNCHANGED world

\* savedata_new() and sg_success = TRUE.
Call_savegame2_save_real ==
  /\ pc = "idle"
  /\ saving' = [scenario |-> request.scenario, save_players |-> FALSE,
                secfile_options |-> <<>>, live |-> TRUE]
  /\ sg_success' = TRUE
  /\ pc' = "sg_save_scenario"
  /\ UNCHANGED <<file, entered, plr>>
  /\ UNCHANGED world

\* The call of sg_save_scenario followed by the game stage.
Call_sg_save_scenario_then_game ==
  /\ pc = "sg_save_scenario"
  /\ entered' = Append(entered, [fn |-> "sg_save_scenario", p |-> -1])
  /\ file' = sg_save_scenario(St).file
  /\ sg_success' = sg_save_scenario(St).ok
  /\ saving' = sg_save_scenario(St).saving
  /\ pc' = "sg_save_game"
  /\ UNCHANGED <<plr, game, map, tiles, players, request, pack, load>>

Call_sg_save_scenario ==
  /\ Call("sg_save_scenario", NoPlayer, sg_save_scenario(St), "sg_save_savefile")
  /\ UNCHANGED plr /\ UNCHANGED world

Call_sg_save_savefile ==
  /\ Call("sg_save_savefile", NoPlayer, sg_save_savefile(St), "sg_save_game")
  /\ UNCHANGED plr /\ UNCHANGED world

Call_sg_save_game ==
  /\ Call("sg_save_game", NoPlayer, sg_save_game(St), "sg_save_random")
  /\ UNCHANGED plr /\ UNCHANGED world

Call_sg_save_random ==
  /\ Call("sg_save_random", NoPlayer, sg_save_random(St), "sg_save_script")
  /\ UNCHANGED plr /\ UNCHANGED world

Call_sg_save_script ==
  /\ Call("sg_save_script", NoPlayer, sg_save_script(St), "sg_save_settings")
  /\ UNCHANGED plr /\ UNCHANGED world

\* The call of sg_save_settings followed by the players stage.
Call_sg_save_settings_then_players ==
  /\ pc = "sg_save_settings"
  /\ entered' = Append(entered, [fn |-> "sg_save_settings", p |-> -1])
  /\ file' = sg_save_settings(St).file
  /\ sg_success' = sg_save_settings(St).ok
  /\ saving' = sg_save_settings(St).saving
  /\ pc' = "sg_save_players"
  /\ UNCHANGED <<plr, game, map, tiles, players, request, pack, load>>

Call_sg_save_settings ==
  /\ Call("sg_save_settings", NoPlayer, sg_save_settings(St), "sg_save_map")
  /\ UNCHANGED plr /\ UNCHANGED world

Call_sg_save_map ==
  /\ Call("sg_save_map", NoPlayer, sg_save_map(St),
          IF sg_save_map_calls_parts(St) THEN "sg_save_map_tiles"
          ELSE "sg_save_players")
  /\ UNCHANGED plr /\ UNCHANGED world

Call_sg_save_map_tiles ==
  /\ Call("sg_save_map_tiles", NoPlayer, sg_save_map_tiles(St),
          "sg_save_map_startpos")
  /\ UNCHANGED plr /\ UNCHANGED world

Call_sg_save_map_startpos ==
  /\ Call("sg_save_map_startpos", NoPlayer, sg_save_map_startpos(St),
          "sg_save_map_tiles_bases")
  /\ UNCHANGED plr /\ UNCHANGED world

Call_sg_save_map_tiles_bases ==
  /\ Call("sg_save_map_tiles_bases", NoPlayer, sg_save_map_tiles_bases(St),
          "sg_save_map_tiles_roads")
  /\ UNCHANGED plr /\ UNCHANGED world

Call_sg_save_map_tiles_roads ==
  /\ Call("sg_save_map_tiles_roads", NoPlayer, sg_save_map_tiles_roads(St),
          "sg_save_savefile_options")
  /\ UNCHANGED plr /\ UNCHANGED world

Call_sg_save_savefile_options ==
  /\ Call("sg_save_savefile_options", NoPlayer,
          sg_save_savefile_options(St, <<" specials">>),
          "sg_save_map_tiles_specials")
  /\ UNCHANGED plr /\ UNCHANGED world

Call_sg_save_map_tiles_specials ==
  /\ Call("sg_save_map_tiles_specials", NoPlayer,
          sg_save_map_tiles_specials(St, FALSE), "sg_save_map_tiles_resources")
  /\ UNCHANGED plr /\ UNCHANGED world

Call_sg_save_map_tiles_resources ==
  /\ Call("sg_save_map_tiles_resources", NoPlayer,
          sg_save_map_tiles_resources(St), "sg_save_map_owner")
  /\ UNCHANGED plr /\ UNCHANGED world

Call_sg_save_map_owner ==
  /\ Call("sg_save_map_owner", NoPlayer, sg_save_map_owner(St),
          "sg_save_map_worked")
  /\ UNCHANGED plr /\ UNCHANGED world

Call_sg_save_map_worked ==
  /\ Call("sg_save_map_worked", NoPlayer, sg_save_map_worked(St),
          "sg_save_map_known")
  /\ UNCHANGED plr /\ UNCHANGED world

Call_sg_save_map_known ==
  /\ Call("sg_save_map_known", NoPlayer, sg_save_map_known(St),
          "sg_save_players")
  /\ UNCHANGED plr /\ UNCHANGED world

Call_sg_save_players ==
  /\ pc = "sg_save_players"
  /\ \E landed \in BOOLEAN :
       IF landed \/ ~(sg_save_players_calls_parts(St) /\ impr_overflow)
       THEN /\ Call("sg_save_players", NoPlayer, sg_save_players(St),
                    IF sg_save_players_calls_parts(St) /\ FirstPlayer # NoNext
                    THEN "sg_save_player_main" ELSE "sg_save_mapimg")
            /\ plr' = IF sg_save_players_calls_parts(St)
                      THEN FirstPlayer ELSE plr
            /\ players' = IF sg_save_players_calls_parts(St)
                          THEN unit_ordering_calc(players, tiles)
                          ELSE players
       ELSE Abort("sg_save_players") /\ UNCHANGED <<plr, players>>
  /\ UNCHANGED <<game, map, tiles, request, pack, load>>

Call_sg_save_player_main ==
  /\ pc = "sg_save_player_main"
  /\ \E landed \in BOOLEAN :
       IF landed \/ ~(sg_success /\ impr_overflow)
       THEN Call("sg_save_player_main", plr, sg_save_player_main(St, plr),
                 "sg_save_player_cities")
       ELSE Abort("sg_save_player_main")
  /\ UNCHANGED plr /\ UNCHANGED world

Call_sg_save_player_cities ==
  /\ pc = "sg_save_player_cities"
  /\ \E landed \in BOOLEAN, detected \in SUBSET (0 .. MaxCities - 1) :
       IF landed \/ ~(sg_success /\ impr_overflow
                      /\ players[plr].cities # <<>>)
       THEN Call("sg_save_player_cities", plr,
                 sg_save_player_cities(St, plr, detected),
                 "sg_save_player_units")
       ELSE Abort("sg_save_player_cities")
  /\ UNCHANGED plr /\ UNCHANGED world

Call_sg_save_player_units ==
  /\ pc = "sg_save_player_units"
  /\ Call("sg_save_player_units", plr, sg_save_player_units(St, plr),
          "sg_save_player_attributes")
  /\ UNCHANGED plr /\ UNCHANGED world

Call_sg_save_player_attributes ==
  /\ pc = "sg_save_player_attributes"
  /\ Call("sg_save_player_attributes", plr,
          sg_save_player_attributes(St, plr),
          IF NextPlayer(plr) # NoNext THEN "sg_save_player_main"
          ELSE "sg_save_mapimg")
  /\ plr' = NextPlayer(plr)
  /\ UNCHANGED world

Call_sg_save_mapimg ==
  /\ Call("sg_save_mapimg", NoPlayer, sg_save_mapimg(St), "sg_save_sanitycheck")
  /\ UNCHANGED plr /\ UNCHANGED world

Call_sg_save_sanitycheck ==
  /\ Call("sg_save_sanitycheck", NoPlayer, sg_save_sanitycheck(St),
          "savedata_destroy")
  /\ UNCHANGED plr /\ UNCHANGED world

\* savedata_destroy(saving), and the return of savegame2_save_real.
Call_savedata_destroy ==
  /\ pc = "savedata_destroy"
  /\ saving' = [saving EXCEPT !.live = FALSE]
  /\ pc' = "done"
  /\ UNCHANGED <<file, sg_success, entered, plr>>
  /\ UNCHANGED world

Next ==
  \/ Call_savegame2_save_real
  \/ Call_sg_save_scenario
  \/ Call_sg_save_savefile
  \/ Call_sg_save_game
  \/ Call_sg_save_random
  \/ Call_sg_save_script
  \/ Call_sg_save_settings
  \/ Call_sg_save_map
  \/ Call_sg_save_map_tiles
  \/ Call_sg_save_map_startpos
  \/ Call_sg_save_map_tiles_bases
  \/ Call_sg_save_map_tiles_roads
  \/ Call_sg_save_savefile_options
  \/ Call_sg_save_map_tiles_specials
  \/ Call_sg_save_map_tiles_resources
  \/ Call_sg_save_map_owner
  \/ Call_sg_save_map_worked
  \/ Call_sg_save_map_known
  \/ Call_sg_save_players
  \/ Call_sg_save_player_main
  \/ Call_sg_save_player_cities
  \/ Call_sg_save_player_units
  \/ Call_sg_save_player_attributes
  \/ Call_sg_save_mapimg
  \/ Call_sg_save_sanitycheck
  \/ Call_savedata_destroy

Spec == Init /\ [][Next]_vars

SpecGrid == InitGrid /\ [][Next]_vars

-----------------------------------------------------------------------------
(* The nibble packing of one tile, group by group: the loop body of        *)
(* sg_save_map_tiles_bases / _roads / _specials for the tile with index 0. *)

PackClasses == {"bases", "roads", "specials"}

\* The variables of a save call when no save call runs.
NoCall(state) ==
  /\ request = [scenario |-> FALSE]
  /\ players = <<>>
  /\ saving = [scenario |-> FALSE, save_players |-> FALSE,
               secfile_options |-> <<>>, live |-> FALSE]
  /\ sg_success = TRUE
  /\ file = <<>>
  /\ pc = state
  /\ plr = NoPlayer
  /\ entered = <<>>

\* A rule set whose three classes have N symbols, a tile holding the set S
\* of each class.
InitNibble ==
  \E class \in PackClasses, N \in 0 .. MaxPackN :
    \E S \in SUBSET (0 .. N - 1) :
      /\ game = [is_scenario |-> FALSE, scenario_players |-> FALSE,
                 started |-> FALSE, num_base_types |-> N,
                 num_road_types |-> N, S_LAST |-> N,
                 S_OLD_RIVER |-> IF N > 0 THEN N - 1 ELSE 0,
                 improvement_count |-> 0, num_tech_types |-> 0,
                 global_advances |-> {}, destroyed_wonders |-> {}]
      /\ map = [empty |-> FALSE, xsize |-> 1, ysize |-> 1]
      /\ tiles = [t \in {0} |->
                    [terrain |-> T_UNKNOWN, special |-> S, bases |-> S,
                     roads |-> S, resource |-> NoResource, owner |-> NoPlayer,
                     claimer |-> NoTile, worked |-> NoCity, known |-> {},
                     units |-> <<>>]]
      /\ pack = [on |-> TRUE, class |-> class, n |-> 0, out |-> <<>>,
                 mods |-> <<>>, reads |-> <<>>]
      /\ load = LoadIdle
      /\ NoCall("packing")

\* One turn of a halfbyte_iterate loop: the window mod of the group and the
\* character the packer returns for the tile.
PackStep(groups, mod, ch, reads) ==
  /\ pack.n < Len(groups)
  /\ LET j == groups[pack.n + 1]
     IN pack' = [pack EXCEPT !.n = @ + 1,
                             !.out = Append(@, ch[j]),
                             !.mods = Append(@, mod[j]),
                             !.reads = Append(@, reads[j])]
  /\ UNCHANGED <<game, map, tiles, players, request, saving, sg_success,
                 file, pc, plr, entered, load>>

Pack_bases ==
  /\ pack.on /\ pack.class = "bases"
  /\ LET G == GroupsOf(game.num_base_types)
     IN PackStep(halfbyte_iterate(game.num_base_types),
                 [j \in G |-> bases_mod(j)],
                 [j \in G |-> sg_bases_get(tiles[0].bases, bases_mod(j))],
                 [j \in G |-> sg_bases_reads(bases_mod(j))])

Pack_roads ==
  /\ pack.on /\ pack.class = "roads"
  /\ LET G == GroupsOf(game.num_road_types)
     IN PackStep(halfbyte_iterate(game.num_road_types),
                 [j \in G |-> roads_mod(j)],
                 [j \in G |-> sg_roads_get(tiles[0].roads, roads_mod(j))],
                 [j \in G |-> sg_roads_reads(roads_mod(j))])

Pack_specials ==
  /\ pack.on /\ pack.class = "specials"
  /\ LET G == GroupsOf(S_LAST)
     IN PackStep(halfbyte_iterate(S_LAST),
                 [j \in G |-> specials_mod(j, FALSE)],
                 [j \in G |-> sg_special_get(tiles[0].special,
                                             specials_mod(j, FALSE))],
                 [j \in G |-> sg_special_reads(specials_mod(j, FALSE))])

NextNibble == Pack_bases \/ Pack_roads \/ Pack_specials

SpecNibble == InitNibble /\ [][NextNibble]_vars

-----------------------------------------------------------------------------
(* LOAD_MAP_CHAR: one grid class read back, row by row.  A cell of         *)
(* load.cells holds the character handed to SET_XY_CHAR for the tile, or   *)
(* NoChar while the tile has the value it had before the macro.            *)

NoChar == ""

\* secfile_lookup_str returning NULL.
NullLine == <<"NULL">>

LoadChars == <<"g", "h", " ", "i">>

\* The line of row y: absent (len < 0) or len characters.
LoadLine(len, y, seed) ==
  IF len < 0 THEN NullLine
  ELSE [x1 \in 1 .. len |-> Pick(LoadChars, x1 + y + seed)]

\* Every map size; every row absent or of a length from 0 to xsize + 1.
InitLoad ==
  \E W \in 1 .. MaxX, H \in 1 .. MaxY, seed \in 0 .. 1 :
    \E lens \in [0 .. H - 1 -> -1 .. W + 1] :
      /\ game = [is_scenario |-> FALSE, scenario_players |-> FALSE,
                 started |-> FALSE, num_base_types |-> 0,
                 num_road_types |-> 0, S_LAST |-> 0, S_OLD_RIVER |-> 0,
                 improvement_count |-> 0, num_tech_types |-> 0,
                 global_advances |-> {}, destroyed_wonders |-> {}]
      /\ map = [empty |-> FALSE, xsize |-> W, ysize |-> H]
      /\ tiles = <<>>
      /\ pack = PackIdle
      /\ load = [on |-> TRUE,
                 lines |-> [y \in 0 .. H - 1 |-> LoadLine(lens[y], y, seed)],
                 nat_y |-> 0,
                 cells |-> [t \in 0 .. W * H - 1 |-> NoChar],
                 printed_warning |-> FALSE, verbose |-> 0, log_sg |-> 0,
                 done |-> FALSE]
      /\ NoCall("loading")

strlen(line) == Len(line)

LoadRest == <<game, map, tiles, players, request, saving, sg_success, file,
              pc, plr, entered, pack>>

\* A missing line reported with log_sg inside the loop.
Load_line_not_found_logged ==
  /\ load.on /\ load.nat_y < map.ysize
  /\ load.lines[load.nat_y] = <<"NULL">>
  /\ load' = [load EXCEPT !.nat_y = @ + 1, !.verbose = @ + 1,
                          !.log_sg = @ + 1, !.printed_warning = TRUE]
  /\ UNCHANGED <<game, map, tiles, players, request, saving, sg_success,
                 file, pc, plr, entered, pack>>

\* A line of another length decoded as far as it and the row reach.
Load_line_too_short_decoded ==
  /\ load.on /\ load.nat_y < map.ysize
  /\ load.lines[load.nat_y] # <<"NULL">>
  /\ Len(load.lines[load.nat_y]) # map.xsize
  /\ load' = [load EXCEPT
       !.nat_y = @ + 1, !.verbose = @ + 1, !.printed_warning = TRUE,
       !.cells = [t \in DOMAIN @ |->
                    IF \E x \in 0 .. map.xsize - 1 :
                         /\ t = x + load.nat_y * map.xsize
                         /\ x < Len(load.lines[load.nat_y])
                    THEN load.lines[load.nat_y][t - load.nat_y * map.xsize + 1]
                    ELSE @[t]]]
  /\ UNCHANGED <<game, map, tiles, players, request, saving, sg_success,
                 file, pc, plr, entered, pack>>

\* if (NULL == _line): log_verbose, _printed_warning, continue.
Load_line_not_found ==
  /\ load.on /\ load.nat_y < map.ysize
  /\ load.lines[load.nat_y] = NullLine
  /\ load' = [load EXCEPT !.nat_y = @ + 1, !.verbose = @ + 1,
                          !.printed_warning = TRUE]
  /\ UNCHANGED LoadRest

\* else if (strlen(_line) != map.xsize): log_verbose, _printed_warning,
\* continue.
Load_line_too_short ==
  /\ load.on /\ load.nat_y < map.ysize
  /\ load.lines[load.nat_y] # NullLine
  /\ strlen(load.lines[load.nat_y]) # map.xsize
  /\ load' = [load EXCEPT !.nat_y = @ + 1, !.verbose = @ + 1,
                          !.printed_warning = TRUE]
  /\ UNCHANGED LoadRest

\* The for loop over _nat_x: SET_XY_CHAR with ch = _line[_nat_x] for every
\* tile of the row.
Load_line ==
  /\ load.on /\ load.nat_y < map.ysize
  /\ load.lines[load.nat_y] # NullLine
  /\ strlen(load.lines[load.nat_y]) = map.xsize
  /\ load' = [load EXCEPT
       !.nat_y = @ + 1,
       !.cells = [t \in DOMAIN @ |->
                    IF \E x \in 0 .. map.xsize - 1 :
                         t = native_pos_to_tile(x, load.nat_y)
                    THEN load.lines[load.nat_y]
                           [(CHOOSE x \in 0 .. map.xsize - 1 :
                               t = native_pos_to_tile(x, load.nat_y)) + 1]
                    ELSE @[t]]]
  /\ UNCHANGED LoadRest

\* After the loop over _nat_y: if (_printed_warning) log_sg(...).
Load_end ==
  /\ load.on /\ load.nat_y = map.ysize /\ ~load.done
  /\ load' = [load EXCEPT !.done = TRUE,
                          !.log_sg = IF load.printed_warning THEN @ + 1 ELSE @]
  /\ UNCHANGED LoadRest

NextLoad ==
  \/ Load_line_not_found
  \/ Load_line_too_short
  \/ Load_line
  \/ Load_end

SpecLoad == InitLoad /\ [][NextLoad]_vars

-----------------------------------------------------------------------------
(* unit_ordering_calc on its own: one player with two cities and up to    *)
(* MaxUnits units, each unit supported by one of the cities or by none and *)
(* standing on one of two tiles, and a unit of another player on the first *)
(* tile.                                                                   *)

MaxUnits == 3

Reverse(s) == [i \in 1 .. Len(s) |-> s[Len(s) + 1 - i]]

\* The units of a set in list order: by id, or by id backwards.
ListOf(S, rev) == IF rev THEN Reverse(SetToSeq(S)) ELSE SetToSeq(S)

\* The unit of the other player.
OtherUnit == UnitId(MaxSlots + MaxUnits, 0)

InitUnits ==
  \E n \in 0 .. MaxUnits, rev \in BOOLEAN, junk \in {0, OrdJunk} :
    \E home \in [1 .. n -> 0 .. 2], at \in [1 .. n -> 0 .. 1] :
      /\ game = [is_scenario |-> FALSE, scenario_players |-> FALSE,
                 started |-> TRUE, num_base_types |-> 0,
                 num_road_types |-> 0, S_LAST |-> 0, S_OLD_RIVER |-> 0,
                 improvement_count |-> 0, num_tech_types |-> 0,
                 global_advances |-> {}, destroyed_wonders |-> {}]
      /\ map = [empty |-> FALSE, xsize |-> 2, ysize |-> 1]
      /\ tiles = [t \in 0 .. 1 |->
                    [terrain |-> T_UNKNOWN, special |-> {}, bases |-> {},
                     roads |-> {}, resource |-> NoResource, owner |-> NoPlayer,
                     claimer |-> NoTile, worked |-> NoCity, known |-> {},
                     units |->
                       ListOf({UnitId(0, i - 1) : i \in {k \in 1 .. n : at[k] = t}}
                                \cup (IF t = 0 THEN {OtherUnit} ELSE {}),
                              rev)]]
      /\ players =
           [p \in 0 .. 1 |->
              IF p = 0
              THEN [cities |-> [c \in 1 .. 2 |->
                                  [id |-> CityId(0, c - 1), built |-> {},
                                   worklist |-> <<>>,
                                   units_supported |->
                                     ListOf({UnitId(0, i - 1) :
                                               i \in {k \in 1 .. n : home[k] = c}},
                                            rev)]],
                    units |-> [i \in 1 .. n |->
                                 [id |-> UnitId(0, i - 1),
                                  ord_city |-> junk, ord_map |-> junk,
                                  has_orders |-> FALSE, orders |-> <<>>]],
                    inventions |-> {}, lost_wonders |-> {}]
              ELSE [cities |-> <<>>,
                    units |-> <<[id |-> OtherUnit,
                                 ord_city |-> junk, ord_map |-> junk,
                                 has_orders |-> FALSE, orders |-> <<>>]>>,
                    inventions |-> {}, lost_wonders |-> {}]]
      /\ request = [scenario |-> FALSE]
      /\ saving = [scenario |-> FALSE, save_players |-> FALSE,
                   secfile_options |-> <<>>, live |-> FALSE]
      /\ sg_success = TRUE
      /\ file = <<>>
      /\ pc = "unit_ordering_calc"
      /\ plr = NoPlayer
      /\ entered = <<>>
      /\ pack = PackIdle
      /\ load = LoadIdle

\* A call of unit_ordering_calc(), the first or a later one.
Call_unit_ordering_calc ==
  /\ pc \in {"unit_ordering_calc", "ordered"}
  /\ players' = unit_ordering_calc(players, tiles)
  /\ pc' = "ordered"
  /\ UNCHANGED <<game, map, tiles, request, saving, sg_success, file, plr,
                 entered, pack, load>>

NextUnits == Call_unit_ordering_calc

SpecUnits == InitUnits /\ [][NextUnits]_vars

------------------------------------------------------------------------------
(* sg_save_player_units on its own: one player whose one unit has no       *)
(* orders, or has orders with a list of up to MaxOrders orders.            *)

MaxOrders == 2

\* The order lists of the lengths 0 .. MaxOrders.
OrderLists == UNION {[1 .. n -> OrderKinds] : n \in 0 .. MaxOrders}

InitOrders ==
  \E has_orders \in BOOLEAN, list \in OrderLists :
    /\ ~has_orders => list = <<>>
    /\ game = [is_scenario |-> FALSE, scenario_players |-> FALSE,
               started |-> TRUE, num_base_types |-> 0,
               num_road_types |-> 0, S_LAST |-> 0, S_OLD_RIVER |-> 0,
               improvement_count |-> 0, num_tech_types |-> 0,
               global_advances |-> {}, destroyed_wonders |-> {}]
    /\ map = [empty |-> FALSE, xsize |-> 1, ysize |-> 1]
    /\ tiles = [t \in {0} |->
                  [terrain |-> T_UNKNOWN, special |-> {}, bases |-> {},
                   roads |-> {}, resource |-> NoResource, owner |-> NoPlayer,
                   claimer |-> NoTile, worked |-> NoCity, known |-> {},
                   units |-> <<UnitId(0, 0)>>]]
    /\ players = [p \in {0} |->
                    [cities |-> <<>>,
                     units |-> <<[id |-> UnitId(0, 0), ord_city |-> 0,
                                  ord_map |-> 0, has_orders |-> has_orders,
                                  orders |-> list]>>,
                     inventions |-> {}, lost_wonders |-> {}]]
    /\ request = [scenario |-> FALSE]
    /\ saving = [scenario |-> FALSE, save_players |-> TRUE,
                 secfile_options |-> <<>>, live |-> TRUE]
    /\ sg_success = TRUE
    /\ file = <<>>
    /\ pc = "sg_save_player_units"
    /\ plr = 0
    /\ entered = <<>>
    /\ pack = PackIdle
    /\ load = LoadIdle

NextOrders == Call_sg_save_player_units

SpecOrders == InitOrders /\ [][NextOrders]_vars

------------------------------------------------------------------------------
(* sg_save_player_attributes on its own: one player with an attribute      *)
(* block of 0 .. MaxBlock bytes, or of about twice PART_SIZE characters     *)
(* when quoted.                                                            *)

MaxBlock == 260

BlockLengths == (0 .. MaxBlock) \cup {2 * 256 - 1, 2 * 256, 2 * 256 + 1}

InitAttributes ==
  \E n \in BlockLengths :
    /\ game = [is_scenario |-> FALSE, scenario_players |-> FALSE,
               started |-> TRUE, num_base_types |-> 0,
               num_road_types |-> 0, S_LAST |-> 0, S_OLD_RIVER |-> 0,
               improvement_count |-> 0, num_tech_types |-> 0,
               global_advances |-> {}, destroyed_wonders |-> {}]
    /\ map = [empty |-> FALSE, xsize |-> 1, ysize |-> 1]
    /\ tiles = [t \in {0} |->
                  [terrain |-> T_UNKNOWN, special |-> {}, bases |-> {},
                   roads |-> {}, resource |-> NoResource, owner |-> NoPlayer,
                   claimer |-> NoTile, worked |-> NoCity, known |-> {},
                   units |-> <<>>]]
    /\ players = [p \in {0} |->
                    [cities |-> <<>>, units |-> <<>>, inventions |-> {},
                     lost_wonders |-> {},
                     attribute_block |-> AttributeBlock(n)]]
    /\ request = [scenario |-> FALSE]
    /\ saving = [scenario |-> FALSE, save_players |-> TRUE,
                 secfile_options |-> <<>>, live |-> TRUE]
    /\ sg_success = TRUE
    /\ file = <<>>
    /\ pc = "sg_save_player_attributes"
    /\ plr = 0
    /\ entered = <<>>
    /\ pack = PackIdle
    /\ load = LoadIdle

NextAttributes == Call_sg_save_player_attributes

SpecAttributes == InitAttributes /\ [][NextAttributes]_vars

------------------------------------------------------------------------------
(* terrain2char and resource2char as sg_save_map_tiles and                 *)
(* sg_save_map_tiles_resources apply them: a map of two tiles with any two *)
(* terrains, or any two resources.                                         *)

\* The terrains of a tile: T_UNKNOWN, the names terrain2char knows and a
\* terrain of the rule set with another name.
TerrainValues == {T_UNKNOWN, "Arctic"} \cup DOMAIN TerrainChars

\* The resources of a tile: none, the names resource2char knows and a
\* resource of the rule set with another name.
ResourceValues == {NoResource, "Seals"} \cup DOMAIN ResourceChars

InitTerrain ==
  \E class \in {"terrain", "resource"} :
    \E a \in IF class = "terrain" THEN TerrainValues ELSE ResourceValues,
       b \in IF class = "terrain" THEN TerrainValues ELSE ResourceValues :
      /\ game = [is_scenario |-> FALSE, scenario_players |-> FALSE,
                 started |-> TRUE, num_base_types |-> 0,
                 num_road_types |-> 0, S_LAST |-> 0, S_OLD_RIVER |-> 0,
                 improvement_count |-> 0, num_tech_types |-> 0,
                 global_advances |-> {}, destroyed_wonders |-> {}]
      /\ map = [empty |-> FALSE, xsize |-> 2, ysize |-> 1]
      /\ tiles = [t \in 0 .. 1 |->
                    [terrain |-> IF class # "terrain" THEN "Grassland"
                                 ELSE IF t = 0 THEN a ELSE b,
                     special |-> {}, bases |-> {}, roads |-> {},
                     resource |-> IF class # "resource" THEN NoResource
                                  ELSE IF t = 0 THEN a ELSE b,
                     owner |-> NoPlayer, claimer |-> NoTile,
                     worked |-> NoCity, known |-> {}, units |-> <<>>]]
      /\ players = <<>>
      /\ request = [scenario |-> FALSE]
      /\ saving = [scenario |-> FALSE, save_players |-> TRUE,
                   secfile_options |-> <<>>, live |-> TRUE]
      /\ sg_success = TRUE
      /\ file = <<>>
      /\ pc = IF class = "terrain" THEN "sg_save_map_tiles"
              ELSE "sg_save_map_tiles_resources"
      /\ plr = NoPlayer
      /\ entered = <<>>
      /\ pack = PackIdle
      /\ load = LoadIdle

NextTerrain == Call_sg_save_map_tiles \/ Call_sg_save_map_tiles_resources

SpecTerrain == InitTerrain /\ [][NextTerrain]_vars

------------------------------------------------------------------------------
(* order2char, dir2char and activity2char as sg_save_player_units applies  *)
(* them: a unit with two orders of any two kinds, two moves in any two     *)
(* directions, or two activity orders with any two activities.             *)

\* The pairs of orders of one class that differ in the field of the class.
OrderPairs ==
  {<<[order |-> a, dir |-> "DIR8_SOUTH", activity |-> "ACTIVITY_MINE",
      base |-> 1, road |-> 2],
     [order |-> b, dir |-> "DIR8_SOUTH", activity |-> "ACTIVITY_MINE",
      base |-> 1, road |-> 2]>> :
     a \in unit_orders \ {"ORDER_LAST"}, b \in unit_orders \ {"ORDER_LAST"}}
  \cup {<<[order |-> "ORDER_MOVE", dir |-> a, activity |-> "ACTIVITY_MINE",
           base |-> 1, road |-> 2],
          [order |-> "ORDER_MOVE", dir |-> b, activity |-> "ACTIVITY_MINE",
           base |-> 1, road |-> 2]>> : a \in direction8, b \in direction8}
  \cup {<<[order |-> "ORDER_ACTIVITY", dir |-> "DIR8_SOUTH", activity |-> a,
           base |-> 1, road |-> 2],
          [order |-> "ORDER_ACTIVITY", dir |-> "DIR8_SOUTH", activity |-> b,
           base |-> 1, road |-> 2]>> :
           a \in unit_activity \ {"ACTIVITY_LAST"},
           b \in unit_activity \ {"ACTIVITY_LAST"}}

InitEnums ==
  \E list \in OrderPairs :
    /\ game = [is_scenario |-> FALSE, scenario_players |-> FALSE,
               started |-> TRUE, num_base_types |-> 0,
               num_road_types |-> 0, S_LAST |-> 0, S_OLD_RIVER |-> 0,
               improvement_count |-> 0, num_tech_types |-> 0,
               global_advances |-> {}, destroyed_wonders |-> {}]
    /\ map = [empty |-> FALSE, xsize |-> 1, ysize |-> 1]
    /\ tiles = [t \in {0} |->
                  [terrain |-> T_UNKNOWN, special |-> {}, bases |-> {},
                   roads |-> {}, resource |-> NoResource, owner |-> NoPlayer,
                   claimer |-> NoTile, worked |-> NoCity, known |-> {},
                   units |-> <<UnitId(0, 0)>>]]
    /\ players = [p \in {0} |->
                    [cities |-> <<>>,
                     units |-> <<[id |-> UnitId(0, 0), ord_city |-> 0,
                                  ord_map |-> 0, has_orders |-> TRUE,
                                  orders |-> list]>>,
                     inventions |-> {}, lost_wonders |-> {},
                     attribute_block |-> NoBlock]]
    /\ request = [scenario |-> FALSE]
    /\ saving = [scenario |-> FALSE, save_players |-> TRUE,
                 secfile_options |-> <<>>, live |-> TRUE]
    /\ sg_success = TRUE
    /\ file = <<>>
    /\ pc = "sg_save_player_units"
    /\ plr = 0
    /\ entered = <<>>
    /\ pack = PackIdle
    /\ load = LoadIdle

SpecEnums == InitEnums /\ [][NextOrders]_vars

------------------------------------------------------------------------------
(* sg_save_map_known on its own: players in any of a few slots of the      *)
(* first two blocks of 32 slots, every assignment of the tiles they know,  *)
(* with and without saved players.                                         *)

\* Slots at both ends of a group of four, in two groups of the first block
\* and in the second block.
KnownSlots == {0, 3, 4, 6, 31, 32}

InitKnown ==
  \E W \in 1 .. MaxX, H \in 1 .. MaxY, save_players \in BOOLEAN,
     slots \in SUBSET KnownSlots :
    \E k0 \in SUBSET slots :
      /\ game = [is_scenario |-> FALSE, scenario_players |-> FALSE,
                 started |-> TRUE, num_base_types |-> 0,
                 num_road_types |-> 0, S_LAST |-> 0, S_OLD_RIVER |-> 0,
                 improvement_count |-> 0, num_tech_types |-> 0,
                 global_advances |-> {}, destroyed_wonders |-> {}]
      /\ map = [empty |-> FALSE, xsize |-> W, ysize |-> H]
      /\ tiles = [t \in 0 .. W * H - 1 |->
                    [terrain |-> "Grassland", special |-> {}, bases |-> {},
                     roads |-> {}, resource |-> NoResource,
                     owner |-> NoPlayer, claimer |-> NoTile,
                     worked |-> NoCity,
                     known |-> IF t % 2 = 0 THEN k0 ELSE slots \ k0,
                     units |-> <<>>]]
      /\ players = [p \in slots |-> PlayerOf(p, 0, 0, 0)]
      /\ request = [scenario |-> FALSE]
      /\ saving = [scenario |-> FALSE, save_players |-> save_players,
                   secfile_options |-> <<>>, live |-> TRUE]
      /\ sg_success = TRUE
      /\ file = <<>>
      /\ pc = "sg_save_map_known"
      /\ plr = NoPlayer
      /\ entered = <<>>
      /\ pack = PackIdle
      /\ load = LoadIdle

NextKnown == Call_sg_save_map_known

SpecKnown == InitKnown /\ [][NextKnown]_vars

------------------------------------------------------------------------------
(* sg_save_player_cities on its own: any of the players saved, with any    *)
(* number of cities, any set of players with citizens in each city, with   *)
(* citizen nationality enabled and disabled.                               *)

InitCitizens ==
  \E slots \in SUBSET (0 .. MaxSlots - 1), nc \in 0 .. MaxCities,
     citizen_nationality \in BOOLEAN :
    \E p \in slots, has \in [1 .. nc -> SUBSET slots] :
      /\ game = [is_scenario |-> FALSE, scenario_players |-> FALSE,
                 started |-> TRUE,
                 citizen_nationality |-> citizen_nationality,
                 num_base_types |-> 0, num_road_types |-> 0, S_LAST |-> 0,
                 S_OLD_RIVER |-> 0, improvement_count |-> 0,
                 num_tech_types |-> 0, global_advances |-> {},
                 destroyed_wonders |-> {}]
      /\ map = [empty |-> FALSE, xsize |-> 1, ysize |-> 1]
      /\ tiles = [t \in {0} |->
                    [terrain |-> T_UNKNOWN, special |-> {}, bases |-> {},
                     roads |-> {}, resource |-> NoResource,
                     owner |-> NoPlayer, claimer |-> NoTile,
                     worked |-> NoCity, known |-> {}, units |-> <<>>]]
      /\ players =
           [q \in slots |->
              [cities |-> [i1 \in 1 .. (IF q = p THEN nc ELSE 0) |->
                             [id |-> CityId(q, i1 - 1), built |-> {},
                              worklist |-> <<>>, units_supported |-> <<>>,
                              citizens |-> [r \in slots |->
                                              IF r \in has[i1]
                                              THEN r + i1 ELSE 0]]],
               units |-> <<>>, inventions |-> {}, lost_wonders |-> {},
               attribute_block |-> NoBlock]]
      /\ request = [scenario |-> FALSE]
      /\ saving = [scenario |-> FALSE, save_players |-> TRUE,
                   secfile_options |-> <<>>, live |-> TRUE]
      /\ sg_success = TRUE
      /\ file = <<>>
      /\ pc = "sg_save_player_cities"
      /\ plr = p
      /\ entered = <<>>
      /\ pack = PackIdle
      /\ load = LoadIdle

NextCitizens == Call_sg_save_player_cities

SpecCitizens == InitCitizens /\ [][NextCitizens]_vars

------------------------------------------------------------------------------
(* The schema upgrade chain of a load: a document declaring a version, the *)
(* steps of the chain applied one by one, then the stages of the load      *)
(* reading the document.  load.log holds the steps applied and the stages  *)
(* that read the document, in the order they happened.                     *)

MaxVersion == 22

\* The versions a document declares; -1 stands for a document without
\* savefile.version.
DeclaredVersions == -1 .. MaxVersion

\* The version of the last entry of the table.
CurrentVersion == compat[compat_current + 1]

\* A declared version is unsupported when it is newer than the current
\* version or is no version id (ids are positive, 0 is the dummy entry).
UnsupportedVersion(v) == v > CurrentVersion \/ v < 1

\* select_chain(declared_version): the entries of the table after the
\* dummy, in table order, whose version is greater than the declared one.
select_chain(v) == SelectSeq(Tail(compat), LAMBDA version : version > v)

\* The stages of a load after the upgrade chain.
LoadStages == <<"Header", "Grid", "Players", "Sanity-check">>

InitCompat ==
  \E v \in DeclaredVersions :
    /\ game = [is_scenario |-> FALSE, scenario_players |-> FALSE,
               started |-> FALSE, num_base_types |-> 0,
               num_road_types |-> 0, S_LAST |-> 0, S_OLD_RIVER |-> 0,
               improvement_count |-> 0, num_tech_types |-> 0,
               global_advances |-> {}, destroyed_wonders |-> {}]
    /\ map = [empty |-> TRUE, xsize |-> 1, ysize |-> 1]
    /\ tiles = <<>>
    /\ pack = PackIdle
    /\ load = [on |-> TRUE, version |-> v, stage |-> 0, failed |-> FALSE,
               log |-> <<>>]
    /\ NoCall("loading")

\* The steps applied so far.
StepsApplied == SelectSeq(load.log, LAMBDA ev : ev.kind = "step")

\* The declared version is unsupported: the load fails and no step runs.
Load_compat_unsupported ==
  /\ load.stage = 0 /\ ~load.failed
  /\ UnsupportedVersion(load.version)
  /\ load' = [load EXCEPT !.failed = TRUE, !.stage = 1]
  /\ UNCHANGED LoadRest

\* The next step of the chain is applied to the document.
Load_compat_step ==
  /\ load.stage = 0
  /\ ~UnsupportedVersion(load.version)
  /\ Len(StepsApplied) < Len(select_chain(load.version))
  /\ load' = [load EXCEPT !.log =
                Append(@, [kind |-> "step",
                           version |-> select_chain(load.version)
                                         [Len(StepsApplied) + 1]])]
  /\ UNCHANGED LoadRest

\* The chain is at its end.
Load_compat_end ==
  /\ load.stage = 0
  /\ ~UnsupportedVersion(load.version)
  /\ Len(StepsApplied) = Len(select_chain(load.version))
  /\ load' = [load EXCEPT !.stage = 1]
  /\ UNCHANGED LoadRest

\* A stage of the load: a no-op once the load has failed, a reader of the
\* document otherwise.
Load_stage ==
  /\ load.stage \in 1 .. Len(LoadStages)
  /\ load' = [load EXCEPT !.stage = @ + 1,
                          !.log = IF load.failed THEN @
                                  ELSE Append(@, [kind |-> "read",
                                                  version |-> load.stage])]
  /\ UNCHANGED LoadRest

NextCompat ==
  \/ Load_compat_unsupported
  \/ Load_compat_step
  \/ Load_compat_end
  \/ Load_stage

SpecCompat == InitCompat /\ [][NextCompat]_vars

------------------------------------------------------------------------------
(* Save calls one after the other: after a call has returned the caller    *)
(* saves again into a new section file; sg_success is static and keeps its *)
(* value between the calls.  The rule set may have been replaced by one    *)
(* with another number of improvements in between.  request.returned holds *)
(* what the earlier calls returned with: the game they saved, sg_success   *)
(* and the file.                                                           *)

MaxCalls == 3

\* The numbers of improvements of the rule sets: one that fits the
\* improvement buffers and one that does not.
ImprovementCounts == {MAX_NUM_ITEMS, MAX_NUM_ITEMS + 1}

InitAgain ==
  \E nc \in 1 .. 2, ni \in ImprovementCounts :
    /\ request = [scenario |-> FALSE, returned |-> <<>>]
    /\ game = [is_scenario |-> FALSE, scenario_players |-> FALSE,
               started |-> TRUE, citizen_nationality |-> FALSE,
               num_base_types |-> 0, num_road_types |-> 1, S_LAST |-> 1,
               S_OLD_RIVER |-> 0, improvement_count |-> ni,
               num_tech_types |-> 1, global_advances |-> {0},
               destroyed_wonders |-> BitsOf(2, ni)]
    /\ map = [empty |-> FALSE, xsize |-> 1, ysize |-> 1]
    /\ tiles = [t \in {0} |-> TileOf(t, 0, 1, 1, 0, 1, 1, {0}, nc)]
    /\ players = [p \in {0} |-> PlayerOf(p, nc, ni, 1)]
    /\ saving = [scenario |-> FALSE, save_players |-> FALSE,
                 secfile_options |-> <<>>, live |-> FALSE]
    /\ sg_success = FALSE
    /\ file = <<>>
    /\ pc = "idle"
    /\ plr = NoPlayer
    /\ entered = <<>>
    /\ pack = PackIdle
    /\ load = LoadIdle

\* savegame2_save_real has returned; the caller prepares the next call
\* with a new, empty section file.
Return_savegame2_save_real ==
  /\ pc = "done"
  /\ Len(request.returned) < MaxCalls - 1
  /\ request' = [request EXCEPT !.returned =
                   Append(@, [game |-> game, ok |-> sg_success,
                              file |-> file])]
  /\ \E ni \in ImprovementCounts :
       /\ game' = [game EXCEPT !.improvement_count = ni,
                               !.destroyed_wonders = BitsOf(2, ni)]
       /\ players' =
            [p \in DOMAIN players |->
               [players[p] EXCEPT
                  !.cities = [i1 \in DOMAIN @ |->
                                [@[i1] EXCEPT !.built = BitsOf(p + i1, ni)]],
                  !.lost_wonders = BitsOf(p + 2, ni)]]
  /\ file' = <<>>
  /\ entered' = <<>>
  /\ plr' = NoPlayer
  /\ pc' = "idle"
  /\ UNCHANGED <<map, tiles, saving, sg_success, pack, load>>

NextAgain == Next \/ Return_savegame2_save_real

SpecAgain == InitAgain /\ [][NextAgain]_vars

------------------------------------------------------------------------------
(* sg_save_map_tiles_specials in rivers-overlay mode on its own: every     *)
(* number of specials, the river at every index, a map of two tiles with   *)
(* every set of specials on the first tile and the other specials on the   *)
(* second.                                                                 *)

InitRivers ==
  \E N \in 1 .. MaxPackN :
    \E river \in 0 .. N - 1, S \in SUBSET (0 .. N - 1) :
      /\ game = [is_scenario |-> FALSE, scenario_players |-> FALSE,
                 started |-> TRUE, num_base_types |-> 0,
                 num_road_types |-> 0, S_LAST |-> N, S_OLD_RIVER |-> river,
                 improvement_count |-> 0, num_tech_types |-> 0,
                 global_advances |-> {}, destroyed_wonders |-> {}]
      /\ map = [empty |-> FALSE, xsize |-> 2, ysize |-> 1]
      /\ tiles = [t \in 0 .. 1 |->
                    [terrain |-> "Grassland",
                     special |-> IF t = 0 THEN S ELSE (0 .. N - 1) \ S,
                     bases |-> {}, roads |-> {}, resource |-> NoResource,
                     owner |-> NoPlayer, claimer |-> NoTile,
                     worked |-> NoCity, known |-> {}, units |-> <<>>]]
      /\ players = <<>>
      /\ request = [scenario |-> TRUE]
      /\ saving = [scenario |-> TRUE, save_players |-> FALSE,
                   secfile_options |-> <<>>, live |-> TRUE]
      /\ sg_success = TRUE
      /\ file = <<>>
      /\ pc = "sg_save_map_tiles_specials"
      /\ plr = NoPlayer
      /\ entered = <<>>
      /\ pack = PackIdle
      /\ load = LoadIdle

\* sg_save_map_tiles_specials(saving, TRUE)
Call_sg_save_map_tiles_specials_rivers ==
  /\ Call("sg_save_map_tiles_specials", NoPlayer,
          sg_save_map_tiles_specials(St, TRUE), "sg_save_map_tiles_resources")
  /\ UNCHANGED plr /\ UNCHANGED world

NextRivers == Call_sg_save_map_tiles_specials_rivers

SpecRivers == InitRivers /\ [][NextRivers]_vars

------------------------------------------------------------------------------
(* num2char as sg_save_player_units applies it: a unit with two orders to  *)
(* build a base, or two orders to build a road, with any index from -1 to  *)
(* MaxTarget in the first order, and any number of base and road types.    *)

MaxTarget == 66

InitTargets ==
  \E activity \in {"ACTIVITY_BASE", "ACTIVITY_GEN_ROAD"},
     a \in -1 .. MaxTarget, b \in {0, 1, 64, 65}, N \in {0, 2, MaxTypes} :
    /\ game = [is_scenario |-> FALSE, scenario_players |-> FALSE,
               started |-> TRUE, num_base_types |-> N,
               num_road_types |-> N, S_LAST |-> 0, S_OLD_RIVER |-> 0,
               improvement_count |-> 0, num_tech_types |-> 0,
               global_advances |-> {}, destroyed_wonders |-> {}]
    /\ map = [empty |-> FALSE, xsize |-> 1, ysize |-> 1]
    /\ tiles = [t \in {0} |->
                  [terrain |-> T_UNKNOWN, special |-> {}, bases |-> {},
                   roads |-> {}, resource |-> NoResource, owner |-> NoPlayer,
                   claimer |-> NoTile, worked |-> NoCity, known |-> {},
                   units |-> <<UnitId(0, 0)>>]]
    /\ players = [p \in {0} |->
                    [cities |-> <<>>,
                     units |-> <<[id |-> UnitId(0, 0), ord_city |-> 0,
                                  ord_map |-> 0, has_orders |-> TRUE,
                                  orders |->
                                    <<[order |-> "ORDER_ACTIVITY",
                                       dir |-> "DIR8_SOUTH",
                                       activity |-> activity,
                                       base |-> a, road |-> a],
                                      [order |-> "ORDER_ACTIVITY",
                                       dir |-> "DIR8_SOUTH",
                                       activity |-> activity,
                                       base |-> b, road |-> b]>>]>>,
                     inventions |-> {}, lost_wonders |-> {}]]
    /\ request = [scenario |-> FALSE]
    /\ saving = [scenario |-> FALSE, save_players |-> TRUE,
                 secfile_options |-> <<>>, live |-> TRUE]
    /\ sg_success = TRUE
    /\ file = <<>>
    /\ pc = "sg_save_player_units"
    /\ plr = 0
    /\ entered = <<>>
    /\ pack = PackIdle
    /\ load = LoadIdle

SpecTargets == InitTargets /\ [][NextOrders]_vars

------------------------------------------------------------------------------
(* Properties of a save call. *)

\* The section of a path: the text before its first '.'.
SectionOf ==
  [x \in {"scenario.is_scenario", "scenario.name", "scenario.players",
          "scenario.startpos_nations"} |-> "scenario"]
  @@ [x \in {"savefile.options", "savefile.version", "savefile.reason",
             "savefile.rulesetdir", "savefile.improvement_size",
             "savefile.improvement_vector", "savefile.technology_size",
             "savefile.technology_vector", "savefile.activities_size",
             "savefile.activities_vector", "savefile.trait_size",
             "savefile.trait_vector", "savefile.specials_size",
             "savefile.specials_vector", "savefile.bases_size",
             "savefile.bases_vector", "savefile.roads_size",
             "savefile.roads_vector"} |-> "savefile"]
  @@ [x \in {"game.version", "game.server_state", "game.global_advances",
             "game.save_players", "game.save_known"} |-> "game"]
  @@ [x \in {"random.save"} |-> "random"]
  @@ [x \in {"script.vars"} |-> "script"]
  @@ [x \in {"settings.set_count"} |-> "settings"]
  @@ [x \in {"map.have_huts", "map.t", "map.b", "map.r", "map.spe",
             "map.res", "map.owner", "map.source", "map.worked", "map.k"}
        |-> "map"]
  @@ [x \in {"players.nplayers", "players.destroyed_wonders",
             "players.identity_number_used", "players.shuffled_player"}
        |-> "players"]
  @@ [x \in {"player.name", "player.research.done", "player.lost_wonders",
             "player.ncities", "player.c.id", "player.c.improvements",
             "player.c.wl_length", "player.c.wl_kind", "player.c.wl_value",
             "player.nunits", "player.u.id", "player.u.ord_map",
             "player.u.ord_city", "player.u.orders_length",
             "player.u.orders_index", "player.u.orders_repeat",
             "player.u.orders_vigilant", "player.u.orders_last_move_safe",
             "player.u.orders_list", "player.u.dir_list",
             "player.u.activity_list", "player.u.base_list",
             "player.u.road_list",
             "player.attribute_v2_block_length",
             "player.attribute_v2_block_length_quoted",
             "player.attribute_v2_block_parts",
             "player.attribute_v2_block_data.part"} |-> "player"]
  @@ [x \in {"mapimg.count"} |-> "mapimg"]

\* The section an entry of the file belongs to.
EntrySection(e) == SectionOf[e.key[1]]

\* The stage functions savegame2_save_real calls itself, in the order the
\* save is documented to run them.
TopOrder == <<"sg_save_scenario", "sg_save_savefile", "sg_save_game",
              "sg_save_random", "sg_save_script", "sg_save_settings",
              "sg_save_map", "sg_save_players", "sg_save_mapimg",
              "sg_save_sanitycheck">>

TopStages == {TopOrder[i] : i \in 1 .. Len(TopOrder)}

\* The top-level stages entered so far, in call order.
TopEntered ==
  LET IsTop(e) == e.fn \in TopStages
      top == SelectSeq(entered, IsTop)
  IN [i \in 1 .. Len(top) |-> top[i].fn]

\* Every function of the call, in program order (the four player parts
\* repeat for every player).
CallOrder == <<"sg_save_scenario", "sg_save_savefile", "sg_save_game",
               "sg_save_random", "sg_save_script", "sg_save_settings",
               "sg_save_map", "sg_save_map_tiles", "sg_save_map_startpos",
               "sg_save_map_tiles_bases", "sg_save_map_tiles_roads",
               "sg_save_savefile_options", "sg_save_map_tiles_specials",
               "sg_save_map_tiles_resources", "sg_save_map_owner",
               "sg_save_map_worked", "sg_save_map_known", "sg_save_players",
               "sg_save_player_main", "sg_save_player_cities",
               "sg_save_player_units", "sg_save_player_attributes",
               "sg_save_mapimg", "sg_save_sanitycheck", "savedata_destroy",
               "done">>

CallRank(fn) == CHOOSE i \in 1 .. Len(CallOrder) : CallOrder[i] = fn

Running == pc \notin {"idle", "done", "aborted", "packing", "loading"}

\* A step taken with the failure flag set: the function pc names is entered
\* (savedata_destroy ends the call), the file and the flag stay as they
\* are, and the function called next is a later one of the program order
\* or the first part of a later player.
FailedStep ==
  /\ file' = file
  /\ sg_success' = sg_success
  /\ IF pc = "savedata_destroy"
     THEN pc' = "done" /\ ~saving'.live /\ entered' = entered
     ELSE /\ Len(entered') = Len(entered) + 1
          /\ entered'[Len(entered')].fn = pc
          /\ SubSeq(entered', 1, Len(entered)) = entered
          /\ \/ CallRank(pc') > CallRank(pc)
             \/ /\ pc = "sg_save_player_attributes"
                /\ pc' = "sg_save_player_main"
                /\ plr' > plr

\* C1: once sg_success is FALSE, every stage and sub-stage entered afterwards
\* returns at its entry without inserting or replacing a key of the file;
\* the call still runs to its end: in every such state the next function of
\* the program order can be called, each is called in order, and the call
\* ends with savedata_destroy.
C1_FailedStagesReturnAtEntry ==
  /\ [][(Running /\ ~sg_success) => FailedStep]_vars
  /\ []((Running /\ ~sg_success) => ENABLED Next)

\* A call that failed in the cities of a player and ran on to its end: the
\* later stages were entered and wrote nothing.
C1_Witness ==
  /\ pc = "done" /\ ~sg_success /\ ~saving.live
  /\ \E i \in 1 .. Len(entered) : entered[i].fn = "sg_save_player_units"
  /\ \E i \in 1 .. Len(entered) : entered[i].fn = "sg_save_mapimg"
  /\ \E i \in 1 .. Len(entered) : entered[i].fn = "sg_save_sanitycheck"
  /\ ~HasKey(file, Key("mapimg.count", -1, -1))
  /\ \A q \in DOMAIN players : ~HasKey(file, Key("player.nunits", q, -1))

\* The grid classes of the map section and the groups they may have.
GridPaths == {"map.t", "map.res", "map.spe", "map.b", "map.r", "map.k"}

GridRowsOf(path, a) ==
  {y \in 0 .. map.ysize - 1 : HasKey(file, Key(path, a, y))}

GridsComplete ==
  \A path \in GridPaths, a \in -1 .. 8 :
    GridRowsOf(path, a) \in {{}, 0 .. map.ysize - 1}

CityRowComplete(q, i) ==
  /\ HasKey(file, Key("player.c.id", q, i))
  /\ HasKey(file, Key("player.c.improvements", q, i))
  /\ HasKey(file, Key("player.c.wl_length", q, i))

CityRowAbsent(q, i) ==
  /\ ~HasKey(file, Key("player.c.id", q, i))
  /\ ~HasKey(file, Key("player.c.improvements", q, i))
  /\ ~HasKey(file, Key("player.c.wl_length", q, i))

CityRows(q) == 0 .. Len(players[q].cities) - 1

CitiesComplete(q) ==
  (\E i \in CityRows(q) : ~CityRowAbsent(q, i))
    => \A i \in CityRows(q) : CityRowComplete(q, i)

UnitRows(q) == 0 .. Len(players[q].units) - 1

UnitsComplete(q) ==
  (\E i \in UnitRows(q) : HasKey(file, Key("player.u.id", q, i)))
    => \A i \in UnitRows(q) : HasKey(file, Key("player.u.id", q, i))

\* C2 as stated: the file of a failed save is complete: a grid class with a
\* row has all map.ysize rows, a player with a city or unit row has all its
\* cities and units, no table is left with a prefix of its rows.
C2_FailedSaveComplete ==
  (pc = "done" /\ ~sg_success) =>
    /\ GridsComplete
    /\ \A q \in DOMAIN players : CitiesComplete(q) /\ UnitsComplete(q)

\* C2: the file of a failed save is cut at the failure.  Its grid classes
\* have all their rows or none, and the tables of the players before the
\* failing one are complete; the city table of the failing player stops in
\* the failing city: the cities before it are complete, the failing city has
\* its id and no improvements, the cities after it are absent; the units of
\* the failing player and everything of the later players are absent.
C2_FailedSaveCutAtFailure ==
  (pc = "done" /\ ~sg_success) =>
    /\ GridsComplete
    /\ \E q \in DOMAIN players :
         /\ \E i \in CityRows(q) :
              /\ HasKey(file, Key("player.c.id", q, i))
              /\ ~HasKey(file, Key("player.c.improvements", q, i))
              /\ ~HasKey(file, Key("player.c.wl_length", q, i))
              /\ \A k \in CityRows(q) :
                   /\ k < i => CityRowComplete(q, k)
                   /\ k > i => CityRowAbsent(q, k)
         /\ ~HasKey(file, Key("player.nunits", q, -1))
         /\ \A i \in UnitRows(q) : ~HasKey(file, Key("player.u.id", q, i))
         /\ \A r \in DOMAIN players :
              /\ r < q => /\ \A i \in CityRows(r) : CityRowComplete(r, i)
                          /\ \A i \in UnitRows(r) :
                               HasKey(file, Key("player.u.id", r, i))
              /\ r > q => /\ ~HasKey(file, Key("player.name", r, -1))
                          /\ ~HasKey(file, Key("player.ncities", r, -1))
                          /\ \A i \in CityRows(r) : CityRowAbsent(r, i)
                          /\ \A i \in UnitRows(r) :
                               ~HasKey(file, Key("player.u.id", r, i))

\* A failed save of two players with two cities each, cut in the second
\* city of the first player.
C2_Witness ==
  /\ pc = "done" /\ ~sg_success
  /\ DOMAIN players = {0, 1}
  /\ Len(players[0].cities) = 2
  /\ CityRowComplete(0, 0)
  /\ HasKey(file, Key("player.c.id", 0, 1))
  /\ ~HasKey(file, Key("player.c.improvements", 0, 1))
  /\ HasKey(file, Key("map.t", -1, map.ysize - 1))

IsPrefix(a, b) == Len(a) <= Len(b) /\ SubSeq(b, 1, Len(a)) = a

\* C3: the top-level stages are entered in the fixed order scenario, savefile,
\* game, random, script, settings, map, players, mapimg, sanitycheck, each
\* once, and the call that ends has entered them all, whether or not a
\* failure occurred.
C3_StageOrder ==
  /\ IsPrefix(TopEntered, TopOrder)
  /\ pc = "done" => TopEntered = TopOrder
  /\ pc = "savedata_destroy" => TopEntered = TopOrder

\* A call that failed and a call that did not have both entered all stages:
\* here the failed one.
C3_Witness ==
  /\ pc = "done" /\ ~sg_success
  /\ TopEntered = TopOrder
  /\ HasKey(file, Key("player.ncities", 0, -1))

\* The header stage has written its keys into the first n entries of the file.
HeaderWithin(n) ==
  \E k \in 1 .. n : file[k].key = Key("savefile.roads_size", -1, -1)

\* C4 as stated: the savefile.* keys are produced first: no key of another
\* section is in the file before the keys of the header stage.
C4_HeaderFirst ==
  \A i \in 1 .. Len(file) :
    EntrySection(file[i]) # "savefile" => HeaderWithin(i - 1)

\* C4: the scenario.* keys are produced first and the savefile.* keys of the
\* header stage next: no key of a section other than scenario is in the file
\* before the keys of the header stage, and the header keys follow the
\* scenario keys.
C4_HeaderAfterScenario ==
  /\ \A i \in 1 .. Len(file) :
       EntrySection(file[i]) \notin {"savefile", "scenario"}
         => HeaderWithin(i - 1)
  /\ \A i \in 1 .. Len(file) :
       EntrySection(file[i]) = "savefile"
         => /\ file[1].key = Key("scenario.is_scenario", -1, -1)
            /\ \A k \in 1 .. Len(file) :
                 EntrySection(file[k]) = "scenario" => k < i

\* A finished save: the scenario key, then the header, then other sections.
C4_Witness ==
  /\ pc = "done" /\ sg_success
  /\ Len(file) > 2
  /\ file[1].key = Key("scenario.is_scenario", -1, -1)
  /\ file[2].key = Key("savefile.options", -1, -1)
  /\ HasKey(file, Key("game.version", -1, -1))
  /\ HasKey(file, Key("mapimg.count", -1, -1))

\* C5: a scenario save whose save_players resolved to FALSE, of a map that
\* is not empty, has no players.* and no player<N>.* key, has the map.ysize
\* terrain lines map.t, and has no map.owner, map.source, map.worked or
\* map.k line.
C5_ScenarioWithoutPlayers ==
  (pc = "done" /\ request.scenario /\ ~saving.save_players /\ ~map_is_empty)
    => /\ \A i \in 1 .. Len(file) :
            EntrySection(file[i]) \notin {"players", "player"}
       /\ \A y \in 0 .. map.ysize - 1 :
            KeyCount(file, Key("map.t", -1, y)) = 1
       /\ \A i \in 1 .. Len(file) :
            file[i].key[1] \notin {"map.owner", "map.source", "map.worked",
                                   "map.k"}

\* A scenario save of a started game with players and cities, without the
\* scenario's players.
C5_Witness ==
  /\ pc = "done" /\ request.scenario /\ ~saving.save_players
  /\ ~map_is_empty /\ game_was_started
  /\ DOMAIN players = {0, 1} /\ Len(players[0].cities) = 2
  /\ map.ysize = 2
  /\ HasKey(file, Key("map.t", -1, 1))

-----------------------------------------------------------------------------
(* Properties of the grids and of the nibble packing. *)

\* The value of a hexadecimal digit.
HexVal(c) == (CHOOSE i \in 1 .. 16 : hex_chars[i] = c) - 1

\* The decoding of the claim: index 4 * j + i is in the set iff bit i of the
\* digit of group j is set, for the indices below n.
Decode(out, n) ==
  {k \in 0 .. n - 1 :
     /\ k \div 4 < Len(out)
     /\ (k % 4) \in BitsOf(HexVal(out[(k \div 4) + 1]), 4)}

PackN == IF pack.class = "bases" THEN game.num_base_types
         ELSE IF pack.class = "roads" THEN game.num_road_types
         ELSE S_LAST

PackSet == IF pack.class = "bases" THEN tiles[0].bases
           ELSE IF pack.class = "roads" THEN tiles[0].roads
           ELSE tiles[0].special

PackDone == pack.on /\ pack.n = Len(halfbyte_iterate(PackN))

\* C6: the packing of a class of N symbols is invertible: the groups written
\* are ceil(N / 4) hexadecimal digits, and decoding them gives back the set
\* of the tile, for every N and every subset of 0 .. N-1.
C6_NibbleRoundTrip ==
  /\ pack.on => Decode(pack.out, PackN) = {k \in PackSet : k < 4 * pack.n}
  /\ PackDone => /\ Len(pack.out) = (PackN + 3) \div 4
                 /\ Decode(pack.out, PackN) = PackSet

\* A class of five symbols packed into two digits, the last symbol set.
C6_Witness ==
  /\ PackDone /\ PackN = 5 /\ pack.class = "roads"
  /\ PackSet = {0, 3, 4}
  /\ pack.out = <<"9", "1">>

PackSentinel == IF pack.class = "specials" THEN S_LAST ELSE NoType

\* C7 as stated: the window of group j holds the sentinel in every slot l
\* with 4 * j + l at or past the class size; bit i of the digit is set iff
\* slot i holds no sentinel and the tile's set contains 4 * j + i; a slot
\* outside the class never tests the tile's bit set.
C7_WindowSentinels ==
  pack.on =>
    \A g \in 1 .. pack.n :
      /\ \A l \in 0 .. 3 :
           /\ 4 * (g - 1) + l >= PackN => pack.mods[g][l + 1] = PackSentinel
           /\ l \in BitsOf(HexVal(pack.out[g]), 4)
                <=> /\ pack.mods[g][l + 1] # PackSentinel
                    /\ (4 * (g - 1) + l) \in PackSet
      /\ pack.reads[g] \subseteq 0 .. PackN - 1

Ceil4(n) == (n + 3) \div 4

\* The characters of a grid line, "" for a line that is not in the file
\* exactly once.
GridLine(path, a, y) ==
  IF KeyCount(file, Key(path, a, y)) = 1
  THEN Lookup(file, Key(path, a, y)).s ELSE <<"">>

\* A single-character class: map.ysize lines, keyed 0 .. map.ysize-1, of
\* map.xsize characters, column x the character of tile (x, row).
GridOf(path, a, char) ==
  /\ \A y \in 0 .. map.ysize - 1 :
       /\ Len(GridLine(path, a, y)) = map.xsize
       /\ \A x \in 0 .. map.xsize - 1 :
            GridLine(path, a, y)[x + 1] = char[x + y * map.xsize]
  /\ \A i \in 1 .. Len(file) :
       (file[i].key[1] = path /\ file[i].key[2] = a)
         => file[i].key[3] \in 0 .. map.ysize - 1

\* The digit of group j of a set of a class of n symbols.
GroupDigit(S, j, n) ==
  hex_chars[SumBits({i \in 0 .. 3 : 4 * j + i < n /\ (4 * j + i) \in S}) + 1]

\* A packed class of n symbols: a grid for each of the ceil(n / 4) groups
\* and no line of another group.
PackedGridOf(path, n, set) ==
  /\ \A j \in 0 .. Ceil4(n) - 1 :
       GridOf(path, j, [t \in DOMAIN tiles |-> GroupDigit(set[t], j, n)])
  /\ \A i \in 1 .. Len(file) :
       file[i].key[1] = path => file[i].key[2] \in 0 .. Ceil4(n) - 1

\* C8: after a save without failure of a map that is not empty, each of
\* map.t, map.res, map.spe<j>, map.b<j>, map.r<j> is map.ysize lines keyed
\* 0 .. map.ysize-1 of map.xsize characters, column x the value of tile
\* (x, row), and a packed class of N symbols has ceil(N / 4) groups.
C8_GridShape ==
  (pc = "done" /\ sg_success /\ ~map_is_empty) =>
    /\ GridOf("map.t", -1,
              [t \in DOMAIN tiles |-> terrain2char(tiles[t].terrain)])
    /\ GridOf("map.res", -1,
              [t \in DOMAIN tiles |-> resource2char(tiles[t].resource)])
    /\ PackedGridOf("map.spe", S_LAST,
                    [t \in DOMAIN tiles |-> tiles[t].special])
    /\ PackedGridOf("map.b", game.num_base_types,
                    [t \in DOMAIN tiles |-> tiles[t].bases])
    /\ PackedGridOf("map.r", game.num_road_types,
                    [t \in DOMAIN tiles |-> tiles[t].roads])

\* A 2 x 2 map saved with five base types (two groups) and no road type.
C8_Witness ==
  /\ pc = "done" /\ sg_success /\ ~map_is_empty
  /\ map.xsize = 2 /\ map.ysize = 2
  /\ game.num_base_types = 5 /\ game.num_road_types = 0 /\ S_LAST = 3
  /\ HasKey(file, Key("map.b", 1, 1))
  /\ \E t \in DOMAIN tiles : 4 \in tiles[t].bases
  /\ ~HasKey(file, Key("map.r", 0, 0))

-----------------------------------------------------------------------------
(* Properties of LOAD_MAP_CHAR. *)

LoadRows == 0 .. map.ysize - 1

ShortByOne(y) ==
  load.lines[y] # NullLine /\ Len(load.lines[y]) = map.xsize - 1

FullLine(y) ==
  load.lines[y] # NullLine /\ Len(load.lines[y]) = map.xsize

\* C9 as stated: a line one character short gives a warning and the
\* map.xsize - 1 tiles it covers get its characters; the row is not dropped.
C9_ShortLineDecoded ==
  (load.on /\ load.done) =>
    \A y \in LoadRows :
      ShortByOne(y) =>
        /\ load.log_sg >= 1
        /\ \A x \in 0 .. map.xsize - 2 :
             load.cells[x + y * map.xsize] = load.lines[y][x + 1]

\* C9: a line one character short gives a warning and the row is dropped as
\* a whole: none of its tiles is set, the map.xsize - 1 it covers included.
C9_ShortLineSkipped ==
  (load.on /\ load.done) =>
    \A y \in LoadRows :
      ShortByOne(y) =>
        /\ load.log_sg = 1 /\ load.verbose >= 1
        /\ \A x \in 0 .. map.xsize - 1 :
             load.cells[x + y * map.xsize] = NoChar

\* Two columns, a first row of one character and a second row of two.
C9_Witness ==
  /\ load.on /\ load.done
  /\ map.xsize = 2 /\ map.ysize = 2
  /\ ShortByOne(0) /\ FullLine(1)
  /\ load.cells[0] = NoChar /\ load.cells[2] # NoChar

\* C10: a missing line or a line of another length than map.xsize is a
\* warning and no failure: sg_success stays TRUE, the tiles of the row keep
\* the value they had, every row with a line of map.xsize characters is
\* decoded in full, and the incomplete-map warning is logged once for the
\* class when a row was skipped and not at all otherwise.
C10_LoadTolerant ==
  load.on =>
    /\ sg_success
    /\ load.done =>
         /\ \A y \in LoadRows :
              IF FullLine(y)
              THEN \A x \in 0 .. map.xsize - 1 :
                     load.cells[x + y * map.xsize] = load.lines[y][x + 1]
              ELSE \A x \in 0 .. map.xsize - 1 :
                     load.cells[x + y * map.xsize] = NoChar
         /\ load.log_sg = IF \E y \in LoadRows : ~FullLine(y) THEN 1 ELSE 0

\* Two rows, the first without a line and skipped, the second decoded, one
\* warning.
C10_Witness ==
  /\ load.on /\ load.done /\ sg_success
  /\ map.xsize = 2 /\ map.ysize = 2
  /\ load.lines[0] = NullLine /\ FullLine(1)
  /\ load.cells[0] = NoChar /\ load.cells[3] = load.lines[1][2]
  /\ load.log_sg = 1 /\ load.verbose = 1

\* The slots k for which city row i of player q has the key.
WorklistSlotsOf(path, q, i) ==
  {k \in 0 .. MAX_LEN_WORKLIST :
     HasKey(file, Key3(path, q, i, k))}

\* City row i of player q has the slot pairs 0 .. m - 1 and no other, the
\* slots below the city's own length with the kind and the name of the
\* entry, the others with two empty strings, and wl_length is the city's
\* own length.
WorklistRow(q, i, m) ==
  LET pwl == players[q].cities[i + 1].worklist
  IN /\ Lookup(file, Key("player.c.wl_length", q, i)) = IntVal(Len(pwl))
     /\ WorklistSlotsOf("player.c.wl_kind", q, i) = 0 .. m - 1
     /\ WorklistSlotsOf("player.c.wl_value", q, i) = 0 .. m - 1
     /\ \A k \in 0 .. m - 1 :
          /\ KeyCount(file, Key3("player.c.wl_kind", q, i, k)) = 1
          /\ KeyCount(file, Key3("player.c.wl_value", q, i, k)) = 1
          /\ Lookup(file, Key3("player.c.wl_kind", q, i, k)) =
               StrVal(IF k < Len(pwl) THEN <<pwl[k + 1].kind>> ELSE <<>>)
          /\ Lookup(file, Key3("player.c.wl_value", q, i, k)) =
               StrVal(IF k < Len(pwl) THEN <<pwl[k + 1].value>> ELSE <<>>)

\* C11: the worklist columns of a player's city table are rectangular: with
\* M the length of the longest worklist of the player's cities, every city
\* row written has exactly the slot pairs wl_kind0..M-1 and wl_value0..M-1,
\* the slots at or past the city's own length hold empty strings, the slots
\* below it the kind and the name of the worklist entry, and wl_length is
\* the city's own length.
C11_RectangularWorklist ==
  \A q \in DOMAIN players :
    \A i \in CityRows(q) :
      IF HasKey(file, Key("player.c.wl_length", q, i))
      THEN WorklistRow(q, i, wlist_max_length(q))
      ELSE /\ WorklistSlotsOf("player.c.wl_kind", q, i) = {}
           /\ WorklistSlotsOf("player.c.wl_value", q, i) = {}

\* A finished save of a player whose two cities have worklists of the
\* lengths 0 and 3: both rows have three slot pairs, the first row three
\* pairs of empty strings.
C11_Witness ==
  /\ pc = "done" /\ sg_success
  /\ 0 \in DOMAIN players /\ Len(players[0].cities) = 2
  /\ Len(players[0].cities[1].worklist) = 0
  /\ Len(players[0].cities[2].worklist) = 3
  /\ HasKey(file, Key("player.c.wl_length", 0, 1))
  /\ Lookup(file, Key("player.c.wl_length", 0, 0)) = IntVal(0)
  /\ Lookup(file, Key("player.c.wl_length", 0, 1)) = IntVal(3)
  /\ \A k \in 0 .. 2 :
       /\ Lookup(file, Key3("player.c.wl_kind", 0, 0, k)) = StrVal(<<>>)
       /\ Lookup(file, Key3("player.c.wl_value", 0, 1, k)) =
            StrVal(<<WorklistItems[k + 1].value>>)

\* The ord values of the units of a list, in list order.
OrdsOf(list, field) ==
  [j \in 1 .. Len(list) |->
     LET owners == {p \in DOMAIN players :
                      \E i \in 1 .. Len(players[p].units) :
                        players[p].units[i].id = list[j]}
         p == CHOOSE o \in owners : TRUE
         i == CHOOSE k \in 1 .. Len(players[p].units) :
                players[p].units[k].id = list[j]
     IN players[p].units[i][field]]

\* The sequence 0, 1, ..., n - 1.
Counting(n) == [j \in 1 .. n |-> j - 1]

\* The ids of the units some city of player p supports.
SupportedOf(p) ==
  UNION {{players[p].cities[c].units_supported[j] :
            j \in 1 .. Len(players[p].cities[c].units_supported)} :
         c \in 1 .. Len(players[p].cities)}

\* The players with the ord fields of every unit set to v.
OrdsSet(v) ==
  [p \in DOMAIN players |->
     [players[p] EXCEPT !.units =
        [i \in 1 .. Len(players[p].units) |->
           [players[p].units[i] EXCEPT !.ord_city = v, !.ord_map = v]]]]

\* C12: after unit_ordering_calc the ord_city values of the units a city
\* supports are, in list order, 0, 1, ..., n-1; the ord_map values of the
\* units on a tile are, in list order, 0, 1, ..., m-1; a unit no city
\* supports has ord_city 0; and the values depend on the lists alone: a
\* second call changes nothing, and the call gives the same values whatever
\* the fields held before.
C12_UnitOrdering ==
  pc = "ordered" =>
    /\ \A p \in DOMAIN players :
         /\ \A c \in 1 .. Len(players[p].cities) :
              LET list == players[p].cities[c].units_supported
              IN OrdsOf(list, "ord_city") = Counting(Len(list))
         /\ \A i \in 1 .. Len(players[p].units) :
              players[p].units[i].id \notin SupportedOf(p)
                => players[p].units[i].ord_city = 0
    /\ \A t \in DOMAIN tiles :
         OrdsOf(tiles[t].units, "ord_map") = Counting(Len(tiles[t].units))
    /\ unit_ordering_calc(players, tiles) = players
    /\ unit_ordering_calc(OrdsSet(0), tiles) = players
    /\ unit_ordering_calc(OrdsSet(OrdJunk), tiles) = players

\* Three units ordered after they held other values: two supported by the
\* second city, in the list backwards by id, one supported by no city, and
\* all three on the first tile behind the unit of the other player.
C12_Witness ==
  /\ pc = "ordered"
  /\ Len(players[0].units) = 3
  /\ players[0].cities[2].units_supported = <<UnitId(0, 2), UnitId(0, 0)>>
  /\ players[0].cities[1].units_supported = <<>>
  /\ tiles[0].units = <<OtherUnit, UnitId(0, 2), UnitId(0, 1), UnitId(0, 0)>>
  /\ players[0].units[1].ord_city = 1 /\ players[0].units[1].ord_map = 3
  /\ players[0].units[2].ord_city = 0 /\ players[0].units[2].ord_map = 2
  /\ players[0].units[3].ord_city = 0 /\ players[0].units[3].ord_map = 1
  /\ players[1].units[1].ord_map = 0

\* Unit row i of player q has each of the ten order keys once.
OrderKeysOnce(q, i) ==
  \A k \in 1 .. Len(OrderKeys) : KeyCount(file, Key(OrderKeys[k], q, i)) = 1

\* The string saved under a key of unit row i of player q.
UnitStr(path, q, i) == Lookup(file, Key(path, q, i)).s

\* C13: every saved unit has the same ten order keys.  For a unit with
\* orders the five list strings have orders_length characters each,
\* orders_list[j] is the character of order j, dir_list[j] is other than
\* '?' only for a move, activity_list[j] only for an activity order,
\* base_list[j] and road_list[j] only for an activity order with the
\* base-building and the road-building activity.  For a unit without orders
\* orders_length is 0 and the five strings are "-".
C13_OrderRecord ==
  \A q \in DOMAIN players :
    \A i \in UnitRows(q) :
      HasKey(file, Key("player.u.id", q, i)) =>
        LET punit == players[q].units[i + 1]
            list == punit.orders
            len == Lookup(file, Key("player.u.orders_length", q, i))
        IN /\ OrderKeysOnce(q, i)
           /\ punit.has_orders =>
                /\ len = IntVal(Len(list))
                /\ \A k \in 6 .. 10 :
                     Len(UnitStr(OrderKeys[k], q, i)) = len.n
                /\ \A j \in 1 .. Len(list) :
                     /\ UnitStr("player.u.orders_list", q, i)[j] =
                          order2char(list[j].order)
                     /\ UnitStr("player.u.dir_list", q, i)[j] # "?"
                          => list[j].order = "ORDER_MOVE"
                     /\ UnitStr("player.u.activity_list", q, i)[j] # "?"
                          => list[j].order = "ORDER_ACTIVITY"
                     /\ UnitStr("player.u.base_list", q, i)[j] # "?"
                          => /\ list[j].order = "ORDER_ACTIVITY"
                             /\ list[j].activity = "ACTIVITY_BASE"
                     /\ UnitStr("player.u.road_list", q, i)[j] # "?"
                          => /\ list[j].order = "ORDER_ACTIVITY"
                             /\ list[j].activity = "ACTIVITY_GEN_ROAD"
           /\ ~punit.has_orders =>
                /\ len = IntVal(0)
                /\ \A k \in 6 .. 10 :
                     UnitStr(OrderKeys[k], q, i) = <<"-">>

\* A saved unit with two orders, a move to the north and the building of
\* base 1.
C13_Witness ==
  /\ pc = "sg_save_player_attributes"
  /\ players[0].units[1].has_orders
  /\ Lookup(file, Key("player.u.orders_length", 0, 0)) = IntVal(2)
  /\ UnitStr("player.u.orders_list", 0, 0) = <<"m", "a">>
  /\ UnitStr("player.u.dir_list", 0, 0) = <<"8", "?">>
  /\ UnitStr("player.u.activity_list", 0, 0) = <<"?", "b">>
  /\ UnitStr("player.u.base_list", 0, 0) = <<"?", "1">>
  /\ UnitStr("player.u.road_list", 0, 0) = <<"?", "?">>

RECURSIVE Concat(_)
\* The strings of a sequence one after the other.
Concat(ss) == IF ss = <<>> THEN <<>> ELSE Head(ss) \o Concat(Tail(ss))

\* The parts saved for player q, in the order of their numbers.
SavedParts(q) ==
  [k \in 1 .. Lookup(file, Key("player.attribute_v2_block_parts", q, -1)).n |->
     Lookup(file, Key("player.attribute_v2_block_data.part", q, k - 1)).s]

\* The quoted form of the attribute block of player q.
QuotedOf(q) ==
  quote_block(players[q].attribute_block.data,
              players[q].attribute_block.length)

\* bytes_left at fc_assert(bytes_left == 0) in the save of player q.
BytesLeftAtAssert(q) ==
  SaveAttributeBlock([file |-> <<>>, ok |-> TRUE, saving |-> saving],
                     q).bytes_left

\* The attribute block of player q has been saved.
AttributesSaved(q) ==
  HasKey(file, Key("player.attribute_v2_block_parts", q, -1))

\* C14: the chunking of the attribute block is lossless for every length:
\* the parts part0 .. part(P-1) one after the other are the quoted string,
\* their lengths add up to attribute_v2_block_length_quoted, and bytes_left
\* is 0 at the assertion that ends the function.
C14_ChunkingLossless ==
  \A q \in DOMAIN players :
    AttributesSaved(q) =>
      /\ Concat(SavedParts(q)) = QuotedOf(q)
      /\ Len(Concat(SavedParts(q))) =
           Lookup(file, Key("player.attribute_v2_block_length_quoted", q, -1)).n
      /\ BytesLeftAtAssert(q) = 0

\* The two characters of the one line of a class of a map of two tiles.
PairLine(path) == Lookup(file, Key(path, -1, 0)).s

\* C15: terrain2char maps two different terrains to two different
\* characters, the unknown terrain and a terrain with a name outside the
\* built-in list included, and resource2char maps two different resource
\* values to two different characters, no resource and a resource with a
\* name outside the built-in list included.
C15_EncodersInjective ==
  /\ HasKey(file, Key("map.t", -1, 0))
       => (tiles[0].terrain # tiles[1].terrain
             => PairLine("map.t")[1] # PairLine("map.t")[2])
  /\ HasKey(file, Key("map.res", -1, 0))
       => (tiles[0].resource # tiles[1].resource
             => PairLine("map.res")[1] # PairLine("map.res")[2])

\* The two orders of the unit of the enum runs, and the saved unit.
EnumPair == players[0].units[1].orders

EnumSaved ==
  /\ HasKey(file, Key("player.u.orders_list", 0, 0))
  /\ Len(players[0].units[1].orders) = 2

\* The two characters of a list string of the unit differ and neither is
\* '?'.
TwoChars(path) ==
  /\ UnitStr(path, 0, 0)[1] # UnitStr(path, 0, 0)[2]
  /\ UnitStr(path, 0, 0)[1] # "?"
  /\ UnitStr(path, 0, 0)[2] # "?"

\* Both orders of the unit are of the kind.
BothOrders(kind) == EnumPair[1].order = kind /\ EnumPair[2].order = kind

\* The activities activity2char has a case for that returns '?'.
UnusedActivities == {"ACTIVITY_UNKNOWN", "ACTIVITY_PATROL_UNUSED"}

\* C16 as stated: order2char, dir2char and activity2char map two different
\* valid members of their enums to two different characters, and no valid
\* member to '?'.
C16_EnumEncodersInjective ==
  EnumSaved =>
    /\ EnumPair[1].order # EnumPair[2].order => TwoChars("player.u.orders_list")
    /\ BothOrders("ORDER_MOVE") /\ EnumPair[1].dir # EnumPair[2].dir
         => TwoChars("player.u.dir_list")
    /\ BothOrders("ORDER_ACTIVITY")
       /\ EnumPair[1].activity # EnumPair[2].activity
         => TwoChars("player.u.activity_list")

\* C16, amended: order2char and dir2char map two different valid members to
\* two different characters other than '?'; activity2char does so for
\* every activity but ACTIVITY_UNKNOWN and ACTIVITY_PATROL_UNUSED, which it
\* both maps to '?'.
C16_EnumEncodersInjectiveButUnused ==
  EnumSaved =>
    /\ EnumPair[1].order # EnumPair[2].order => TwoChars("player.u.orders_list")
    /\ BothOrders("ORDER_MOVE") /\ EnumPair[1].dir # EnumPair[2].dir
         => TwoChars("player.u.dir_list")
    /\ BothOrders("ORDER_ACTIVITY") =>
         /\ \A j \in 1 .. 2 :
              EnumPair[j].activity \in UnusedActivities
                <=> UnitStr("player.u.activity_list", 0, 0)[j] = "?"
         /\ (/\ EnumPair[1].activity # EnumPair[2].activity
             /\ EnumPair[1].activity \notin UnusedActivities
             /\ EnumPair[2].activity \notin UnusedActivities)
              => TwoChars("player.u.activity_list")

\* A saved unit whose two orders are the activities old road and road
\* building, saved as 'r' and 'R'.
C16_Witness ==
  /\ EnumSaved
  /\ BothOrders("ORDER_ACTIVITY")
  /\ EnumPair[1].activity = "ACTIVITY_OLD_ROAD"
  /\ EnumPair[2].activity = "ACTIVITY_GEN_ROAD"
  /\ UnitStr("player.u.activity_list", 0, 0) = <<"r", "R">>
  /\ UnitStr("player.u.orders_list", 0, 0) = <<"a", "a">>

\* The bit strings of the document with the header key of their size and
\* the set they describe: the entries <<key, size key, set>>.
BitStrings ==
  {<<Key("game.global_advances", -1, -1), "savefile.technology_size",
     game.global_advances>>,
   <<Key("players.destroyed_wonders", -1, -1), "savefile.improvement_size",
     game.destroyed_wonders>>}
  \cup {<<Key("player.research.done", q, -1), "savefile.technology_size",
          players[q].inventions>> : q \in DOMAIN players}
  \cup {<<Key("player.lost_wonders", q, -1), "savefile.improvement_size",
          players[q].lost_wonders>> : q \in DOMAIN players}
  \cup UNION {{<<Key("player.c.improvements", q, i),
                 "savefile.improvement_size",
                 players[q].cities[i + 1].built>> : i \in CityRows(q)} :
              q \in DOMAIN players}

\* C17: every bit string of the document has the length the header of the
\* same document gives as the size of its class (research.done and
\* game.global_advances the technology size; lost_wonders, a city's
\* improvements and players.destroyed_wonders the improvement size), every
\* character is '0' or '1', and position i is '1' iff the symbol with
\* index i is in the set.
C17_BitStringsSized ==
  \A b \in BitStrings :
    HasKey(file, b[1]) =>
      /\ HasKey(file, Key(b[2], -1, -1))
      /\ KeyCount(file, b[1]) = 1
      /\ Len(Lookup(file, b[1]).s) = Lookup(file, Key(b[2], -1, -1)).n
      /\ \A i \in 1 .. Len(Lookup(file, b[1]).s) :
           /\ Lookup(file, b[1]).s[i] \in {"0", "1"}
           /\ Lookup(file, b[1]).s[i] = "1" <=> (i - 1) \in b[3]

\* A finished save with a technology size of 2 and an improvement size of
\* 1: player 0 knows technology 0 alone and its second city has
\* improvement 0.
C17_Witness ==
  /\ pc = "done" /\ sg_success
  /\ HasKey(file, Key("player.c.improvements", 0, 1))
  /\ Lookup(file, Key("savefile.technology_size", -1, -1)) = IntVal(2)
  /\ Lookup(file, Key("savefile.improvement_size", -1, -1)) = IntVal(1)
  /\ Len(Lookup(file, Key("player.research.done", 0, -1)).s) = 2
  /\ Len(Lookup(file, Key("game.global_advances", -1, -1)).s) = 2
  /\ Len(Lookup(file, Key("player.lost_wonders", 0, -1)).s) = 1
  /\ Len(Lookup(file, Key("players.destroyed_wonders", -1, -1)).s) = 1
  /\ Len(Lookup(file, Key("player.c.improvements", 0, 1)).s) = 1

\* The six classes of the claim with the number of their symbols.
ClassSizes ==
  [improvement |-> game.improvement_count,
   technology |-> game.num_tech_types,
   trait |-> TRAIT_COUNT,
   specials |-> S_LAST,
   bases |-> game.num_base_types,
   roads |-> game.num_road_types]

\* The entries of the name vector of a class in the document: none when
\* the document has no vector of the class.
VectorOf(class) ==
  IF HasKey(file, Key("savefile." \o class \o "_vector", -1, -1))
  THEN Lookup(file, Key("savefile." \o class \o "_vector", -1, -1)).s
  ELSE <<>>

\* The header stage has written its keys.
HeaderWritten == HasKey(file, Key("savefile.version", -1, -1))

\* C18: the header holds for each of the classes improvements,
\* technologies, traits, specials, bases and roads one integer size, the
\* number of symbols of the class, and a name vector with that many
\* entries (no entry when the size is 0), entry i being the rule name of
\* the symbol with index i and entry 0 of the technologies "A_NONE".
C18_OrderTables ==
  HeaderWritten =>
    \A class \in DOMAIN ClassSizes :
      /\ KeyCount(file, Key("savefile." \o class \o "_size", -1, -1)) = 1
      /\ KeyCount(file, Key("savefile." \o class \o "_vector", -1, -1)) <= 1
      /\ Lookup(file, Key("savefile." \o class \o "_size", -1, -1)) =
           IntVal(ClassSizes[class])
      /\ Len(VectorOf(class)) = ClassSizes[class]
      /\ \A i \in 0 .. ClassSizes[class] - 1 :
           VectorOf(class)[i + 1] =
             IF class = "technology" /\ i = 0 THEN <<"A_NONE", 0>>
             ELSE RuleName(class, i)

\* A header with no improvement, two technologies, the first of them
\* A_NONE, no base and MaxTypes roads.
C18_Witness ==
  /\ HeaderWritten
  /\ game.improvement_count = 0 /\ VectorOf("improvement") = <<>>
  /\ game.num_tech_types = 2
  /\ VectorOf("technology") = <<<<"A_NONE", 0>>, RuleName("technology", 1)>>
  /\ game.num_base_types = 0 /\ VectorOf("bases") = <<>>
  /\ Len(VectorOf("roads")) = MaxTypes
  /\ Len(VectorOf("trait")) = TRAIT_COUNT

RECURSIVE Split(_)
\* The tokens of a line: the text between its commas, one token more than
\* commas.
Split(line) ==
  IF \A k \in 1 .. Len(line) : line[k] # "," THEN <<line>>
  ELSE LET c == CHOOSE k \in 1 .. Len(line) :
                  line[k] = "," /\ \A m \in 1 .. k - 1 : line[m] # ","
       IN <<SubSeq(line, 1, c - 1)>> \o Split(SubSeq(line, c + 1, Len(line)))

\* The number of commas of a line.
Commas(line) == Cardinality({k \in 1 .. Len(line) : line[k] = ","})

\* The token of the claim for a value: "-" for none, its decimal digits
\* otherwise.
TokenOf(value, none) == IF value = none THEN <<"-">> ELSE Dec(value)

\* The lines of a path are the rows 0 .. map.ysize - 1, each with map.xsize
\* tokens, none of them empty, and map.xsize - 1 commas, token x the token
\* of the value of tile (x, row).
TokenGrid(path, value, none) ==
  /\ \A i \in 1 .. Len(file) :
       file[i].key[1] = path => file[i].key[3] \in 0 .. map.ysize - 1
  /\ \A y \in 0 .. map.ysize - 1 :
       /\ KeyCount(file, Key(path, -1, y)) = 1
       /\ LET line == Lookup(file, Key(path, -1, y)).s
          IN /\ Len(Split(line)) = map.xsize
             /\ Commas(line) = map.xsize - 1
             /\ line[1] # "," /\ line[Len(line)] # ","
             /\ \A x \in 0 .. map.xsize - 1 :
                  Split(line)[x + 1] =
                    TokenOf(value[native_pos_to_tile(x, y)], none)

\* C19: every map.owner and map.source line has map.xsize tokens separated
\* by map.xsize - 1 commas, no comma first or last, token x for tile
\* (x, row); an owner token is "-" iff the tile has no owner or
\* save_players is FALSE and the player number of the owner otherwise; a
\* source token is "-" iff the tile has no claimer and the tile index of
\* the claimer otherwise.
C19_OwnerLines ==
  HasKey(file, Key("map.owner", -1, 0)) =>
    /\ TokenGrid("map.owner",
                 [t \in DOMAIN tiles |->
                    IF saving.save_players THEN tiles[t].owner ELSE NoPlayer],
                 NoPlayer)
    /\ TokenGrid("map.source", [t \in DOMAIN tiles |-> tiles[t].claimer],
                 NoTile)

\* A map two tiles wide saved with its players: an owner line with the
\* owner 0 and a tile without owner, and the source line of the same row
\* with a tile index and "-".
C19_Witness ==
  /\ HasKey(file, Key("map.owner", -1, 0))
  /\ saving.save_players /\ map.xsize = 2
  /\ \E y \in 0 .. map.ysize - 1 :
       /\ Lookup(file, Key("map.owner", -1, y)).s = <<"0", ",", "-">>
       /\ Lookup(file, Key("map.source", -1, y)).s \in
            {<<Digits[n + 1], ",", "-">> : n \in 0 .. 3}

\* C20: every map.worked line has the shape of the ownership lines:
\* map.xsize tokens separated by map.xsize - 1 commas and no comma last,
\* token x "-" iff tile (x, row) is worked by no city and the id of the
\* city that works it otherwise.
C20_WorkedLines ==
  HasKey(file, Key("map.worked", -1, 0)) =>
    TokenGrid("map.worked", [t \in DOMAIN tiles |-> tiles[t].worked], NoCity)

------------------------------------------------------------------------------
(* Properties of the visibility lines. *)

\* sg_save_map_known has returned from a call with saved players.
KnownSaved ==
  pc = "sg_save_players" /\ sg_success /\ saving.save_players

\* The groups that have a line in the file.
KnownGroups ==
  {file[i].key[2] : i \in {k \in 1 .. Len(file) : file[k].key[1] = "map.k"}}

\* The blocks of 32 slots the groups of the file lie in.
KnownBlocks == {g \div 8 : g \in KnownGroups}

\* C21: after sg_save_map_known with saved players, for every player p and
\* tile t the line map.k<p div 4>_<row of t> is in the file and bit p mod 4
\* of its hex digit at t's column is set iff p knows t; group g has lines
\* iff one of the slots 4g .. 4g+3 is used, and then one line per row, each
\* key once; the groups lie in the blocks 0 .. (highest used slot div 32).
C21_KnownBitExact ==
  KnownSaved =>
    /\ \A p \in DOMAIN players :
         \A y \in 0 .. map.ysize - 1, x \in 0 .. map.xsize - 1 :
           /\ HasKey(file, Key("map.k", p \div 4, y))
           /\ Len(Lookup(file, Key("map.k", p \div 4, y)).s) = map.xsize
           /\ (p % 4) \in
                 BitsOf(HexVal(Lookup(file, Key("map.k", p \div 4, y)).s[x + 1]), 4)
                <=> p \in tiles[native_pos_to_tile(x, y)].known
    /\ KnownGroups = {p \div 4 : p \in DOMAIN players}
    /\ \A i \in 1 .. Len(file) :
         file[i].key[1] = "map.k" =>
           /\ file[i].key[3] \in 0 .. map.ysize - 1
           /\ KeyCount(file, file[i].key) = 1
    /\ KnownBlocks \subseteq 0 .. (player_slot_max_used_number \div 32)
    /\ DOMAIN players # {} =>
         (player_slot_max_used_number \div 32) \in KnownBlocks

\* Players 3, 4 and 32 saved on a map of two columns: 3 and 32 know the
\* first tile only, 4 the second only.
C21_Witness ==
  /\ KnownSaved
  /\ DOMAIN players = {3, 4, 32}
  /\ map.xsize = 2
  /\ tiles[0].known = {3, 32}
  /\ Lookup(file, Key("map.k", 0, 0)).s = <<"8", "0">>
  /\ Lookup(file, Key("map.k", 1, 0)).s = <<"0", "1">>
  /\ Lookup(file, Key("map.k", 8, 0)).s = <<"1", "0">>

------------------------------------------------------------------------------
(* Properties of the citizen fields. *)

\* The number of entries player.c.citizen of city i of player p for q.
CitizenCount(p, i, q) == KeyCount(file, Key3("player.c.citizen", p, i, q))

\* The players q for which some entry player.c.citizen of player p is in
\* the file.
CitizenFields(p) ==
  {file[k].key[4] :
     k \in {j \in 1 .. Len(file) :
              file[j].key[1] = "player.c.citizen" /\ file[j].key[2] = p}}

\* sg_save_player_cities has returned without failure for player plr.
CitiesSaved == pc = "sg_save_player_units" /\ sg_success

\* C22: after sg_save_player_cities for a player, with citizen nationality
\* enabled the field citizen<q> is in the file iff q has citizens in one of
\* the player's cities, and then it is written once for each of the
\* player's cities with that city's count; with citizen nationality
\* disabled no citizen field is written.
C22_CitizenTable ==
  CitiesSaved =>
    /\ ~game.citizen_nationality => CitizenFields(plr) = {}
    /\ game.citizen_nationality =>
         /\ CitizenFields(plr) =
              {q \in DOMAIN players :
                 \E i1 \in 1 .. Len(players[plr].cities) :
                    players[plr].cities[i1].citizens[q] # 0}
         /\ \A q \in CitizenFields(plr) :
              \A i \in 0 .. Len(players[plr].cities) - 1 :
                 /\ CitizenCount(plr, i, q) = 1
                 /\ Lookup(file, Key3("player.c.citizen", plr, i, q)).n =
                      players[plr].cities[i + 1].citizens[q]
    /\ \A k \in 1 .. Len(file) :
         file[k].key[1] = "player.c.citizen" =>
           file[k].key[3] \in 0 .. Len(players[plr].cities) - 1

\* A player with two cities; another player has citizens in the second
\* city only and is written for both, with count 0 for the first.
C22_Witness ==
  /\ CitiesSaved /\ game.citizen_nationality
  /\ Len(players[plr].cities) = 2
  /\ \E q \in DOMAIN players \ {plr} :
       /\ players[plr].cities[1].citizens[q] = 0
       /\ players[plr].cities[2].citizens[q] > 0
       /\ HasKey(file, Key3("player.c.citizen", plr, 0, q))
       /\ Lookup(file, Key3("player.c.citizen", plr, 0, q)).n = 0
       /\ Lookup(file, Key3("player.c.citizen", plr, 1, q)).n > 0
  /\ \E q \in DOMAIN players : q \notin CitizenFields(plr)

------------------------------------------------------------------------------
(* Properties of the schema version registry. *)

\* The versions of the steps applied so far, in the order of application.
AppliedVersions == [i \in 1 .. Len(StepsApplied) |-> StepsApplied[i].version]

\* The versions of the table after the dummy entry.
RegistryVersions == {compat[i] : i \in 2 .. compat_num}

\* The greatest version of the table.
NewestVersion ==
  CHOOSE v \in RegistryVersions : \A w \in RegistryVersions : w <= v

\* The chain has run to its end, or the load has failed.
ChainOver == load.stage >= 1

\* C23: the steps applied to a document declaring version v are applied in
\* strictly increasing version order; once the chain is over they are
\* exactly the steps of the table with a version greater than v and at
\* most the current version; every step is applied before any stage reads
\* the document; a document whose version is newer than the current one or
\* is no version id fails and no step is applied to it.
C23_UpgradeChain ==
  /\ \A i \in 1 .. Len(AppliedVersions) - 1 :
       AppliedVersions[i] < AppliedVersions[i + 1]
  /\ \A i \in 1 .. Len(load.log), j \in 1 .. Len(load.log) :
       (load.log[i].kind = "read" /\ load.log[j].kind = "step") => j < i
  /\ (\E i \in 1 .. Len(load.log) : load.log[i].kind = "read") =>
       ~load.failed /\ ChainOver
  /\ (ChainOver /\ ~load.failed) =>
       /\ load.version \in 1 .. NewestVersion
       /\ {AppliedVersions[i] : i \in 1 .. Len(AppliedVersions)} =
            {w \in RegistryVersions : w > load.version /\ w <= NewestVersion}
  /\ (load.version > NewestVersion \/ load.version < 1) =>
       /\ AppliedVersions = <<>>
       /\ ChainOver => load.failed

\* A document of version 3 loaded to its end: the steps 10 and 20 were
\* applied, in that order, before the four stages read it.
C23_Witness ==
  /\ load.version = 3 /\ load.stage = Len(LoadStages) + 1
  /\ AppliedVersions = <<10, 20>>
  /\ Len(load.log) = 2 + Len(LoadStages)

------------------------------------------------------------------------------
(* Properties of save calls one after the other. *)

\* The trace of the failure of sg_save_player_cities in the file of the
\* call: a city whose id is written and whose improvements are not.
FailureRecorded ==
  \E q \in DOMAIN players :
    \E i \in CityRows(q) :
      /\ HasKey(file, Key("player.c.id", q, i))
      /\ ~HasKey(file, Key("player.c.improvements", q, i))

\* C24: every save call sets sg_success to TRUE at its start; within a call
\* it never changes from FALSE to TRUE and changes to FALSE only in a stage
\* that records a failure; at the return it is FALSE iff a failure was
\* recorded in this call; a call returns with the status and the file an
\* earlier call of the same game returned with, whatever the calls in
\* between returned with.
C24_StatusPerCall ==
  /\ [][(pc = "idle" /\ pc' # "idle") => sg_success']_vars
  /\ [][Running => (sg_success' => sg_success)]_vars
  /\ [][(sg_success /\ ~sg_success') =>
          (pc = "sg_save_player_cities" /\ FailureRecorded')]_vars
  /\ [](pc = "done" => (~sg_success <=> FailureRecorded))
  /\ [](pc = "done" =>
          \A k \in 1 .. Len(request.returned) :
             (request.returned[k].game = game /\ ~impr_overflow) =>
               /\ request.returned[k].ok = sg_success
               /\ request.returned[k].file = file)

\* Three calls: the first returned without failure, the second saved a
\* rule set with too many improvements and failed, the third saved the
\* game of the first and returned what the first returned.
C24_Witness ==
  /\ pc = "done" /\ sg_success /\ file # <<>>
  /\ Len(request.returned) = 2
  /\ request.returned[1].ok /\ ~request.returned[2].ok
  /\ request.returned[1].game = game
  /\ request.returned[1].file = file
  /\ HasKey(file, Key("player.u.ord_map", 0, 0))

------------------------------------------------------------------------------
(* Properties of the references to players and cities. *)

\* game.save_players is in the file with the value TRUE.
SavePlayersWritten ==
  /\ HasKey(file, Key("game.save_players", -1, -1))
  /\ Lookup(file, Key("game.save_players", -1, -1)).n = 1

\* The tokens of the lines of a path that are not "-".
NumericTokens(path) ==
  UNION {{Split(file[i].val.s)[k] : k \in 1 .. Len(Split(file[i].val.s))}
           \ {<<"-">>, <<>>} :
         i \in {j \in 1 .. Len(file) : file[j].key[1] = path}}

\* C25: in the file of a save without failure players.nplayers is written
\* iff game.save_players is written as TRUE, and a map.owner line has a
\* token other than "-" only if game.save_players is written as TRUE.
C25_PlayersStageIffSavePlayers ==
  (pc = "done" /\ sg_success) =>
    /\ HasKey(file, Key("players.nplayers", -1, -1)) <=> SavePlayersWritten
    /\ NumericTokens("map.owner") # {} => SavePlayersWritten

\* A scenario save of a started game with the scenario's players: the
\* players are saved and a tile is owned by player 0; and the file has the
\* key game.save_players.
C25_Witness ==
  /\ pc = "done" /\ sg_success
  /\ request.scenario /\ game.scenario_players /\ game_was_started
  /\ SavePlayersWritten
  /\ HasKey(file, Key("players.nplayers", -1, -1))
  /\ <<"0">> \in NumericTokens("map.owner")

\* C26: in the file of a save without failure a map.worked line has a
\* token other than "-", a city id, only if game.save_players is written as
\* TRUE; without saved players every map.worked token is "-" or there is no
\* map.worked line.
C26_WorkedOnlyWithPlayers ==
  (pc = "done" /\ sg_success) =>
    (NumericTokens("map.worked") # {} => SavePlayersWritten)

------------------------------------------------------------------------------
(* Properties of the characters of the grids. *)

\* The stages that write the grids of the map have been called.
GridStagesEntered ==
  /\ pc \in {CallOrder[i] : i \in 1 .. Len(CallOrder)}
  /\ CallRank(pc) > CallRank("sg_save_map_tiles")
  /\ CallRank(pc) <= CallRank("sg_save_players")

\* The entries of the grid lines of the file.
GridEntries == {i \in 1 .. Len(file) : file[i].key[1] \in GridPaths}

\* C27: every character terrain2char, resource2char and the hex digits of
\* sg_special_get, sg_bases_get, sg_roads_get and bin2ascii_hex give is
\* printable; the stages that write the grids leave sg_success TRUE, every
\* grid class in the file has all its rows and every character of a grid
\* line is printable.
C27_GridCharsPrintable ==
  /\ \A name \in DOMAIN TerrainChars \cup {T_UNKNOWN, "Arctic"} :
       fc_isprint(terrain2char(name))
  /\ \A name \in DOMAIN ResourceChars \cup {NoResource, "Seals"} :
       fc_isprint(resource2char(name))
  /\ \A bin \in 0 .. 15 : fc_isprint(bin2ascii_hex(bin, 0))
  /\ \A t \in DOMAIN tiles, j \in 0 .. 1 :
       /\ fc_isprint(sg_special_get(tiles[t].special, specials_mod(j, FALSE)))
       /\ fc_isprint(sg_bases_get(tiles[t].bases, bases_mod(j)))
       /\ fc_isprint(sg_roads_get(tiles[t].roads, roads_mod(j)))
  /\ GridStagesEntered => sg_success
  /\ GridsComplete
  /\ \A i \in GridEntries :
       \A k \in 1 .. Len(file[i].val.s) : fc_isprint(file[i].val.s[k])

\* A save that has written all six grid classes of a map with a tile of a
\* terrain terrain2char does not list.
C27_Witness ==
  /\ pc = "sg_save_players" /\ sg_success
  /\ \E t \in DOMAIN tiles : tiles[t].terrain = "Volcano"
  /\ \A path \in GridPaths :
       \E i \in GridEntries :
          file[i].key[1] = path /\ file[i].key[3] = map.ysize - 1

------------------------------------------------------------------------------
(* Properties of the rivers overlay. *)

\* The digit of the claim for group j of a tile in rivers-overlay mode:
\* the bit of the river's position in the group that holds the river index
\* iff the tile has the river, no other bit.
RiverDigit(t, j) ==
  hex_chars[(IF j = S_OLD_RIVER \div 4 /\ S_OLD_RIVER \in tiles[t].special
             THEN Pow2(S_OLD_RIVER % 4) ELSE 0) + 1]

------------------------------------------------------------------------------
(* Properties of the targets of the orders. *)

\* The index an order targets and the size of the order table of its class.
TargetOf(o) == IF o.activity = "ACTIVITY_BASE" THEN o.base ELSE o.road

TableSizeOf(o) ==
  IF o.activity = "ACTIVITY_BASE" THEN game.num_base_types
  ELSE game.num_road_types

TargetList(o) ==
  IF o.activity = "ACTIVITY_BASE" THEN "player.u.base_list"
  ELSE "player.u.road_list"

\* sg_save_player_units has returned for the unit with the two orders.
TargetsSaved == pc = "sg_save_player_attributes"

\* C29: for every order that targets a base or a road, an index of the
\* order table of its class is written in base_list / road_list as a
\* character other than '?', different indices as different characters; an
\* index outside the table is recorded as a failure and is not written as
\* '?'.
C29_TargetsClosed ==
  TargetsSaved =>
    LET list == players[0].units[1].orders
        char(j) == UnitStr(TargetList(list[j]), 0, 0)[j]
        inside(j) == TargetOf(list[j]) \in 0 .. TableSizeOf(list[j]) - 1
    IN /\ \A j \in 1 .. Len(list) :
            inside(j) => sg_success /\ char(j) # "?"
       /\ \A j \in 1 .. Len(list), k \in 1 .. Len(list) :
            (inside(j) /\ inside(k)
             /\ TargetOf(list[j]) # TargetOf(list[k])) => char(j) # char(k)
       /\ \A j \in 1 .. Len(list) :
            ~inside(j) =>
              /\ ~sg_success
              /\ HasKey(file, Key(TargetList(list[j]), 0, 0))
                   => char(j) # "?"

\* The header stage has been called.
HeaderEntered ==
  \E i \in 1 .. Len(entered) : entered[i].fn = "sg_save_savefile"

\* C30: apart from the dummy entry 0 at its head the versions of compat
\* are strictly increasing, compat_current is the index of the last entry,
\* whose version is the greatest of the table, and every save that has
\* called the header stage has written exactly that version, once, as
\* savefile.version.
C30_RegistryWellFormed ==
  /\ compat[1] = 0
  /\ \A i \in 2 .. compat_num - 1 : compat[i] < compat[i + 1]
  /\ \A i \in 2 .. compat_num : compat[i] > 0
  /\ compat_current + 1 = Len(compat)
  /\ compat[compat_current + 1] = NewestVersion
  /\ HeaderEntered <=> HasKey(file, Key("savefile.version", -1, -1))
  /\ HeaderEntered =>
       /\ KeyCount(file, Key("savefile.version", -1, -1)) = 1
       /\ Lookup(file, Key("savefile.version", -1, -1)) = IntVal(NewestVersion)

\* A scenario save that has returned: the header was written after the
\* scenario section, with version 20.
C30_Witness ==
  /\ pc = "done" /\ request.scenario /\ game.is_scenario
  /\ HeaderEntered
  /\ Lookup(file, Key("savefile.version", -1, -1)) = IntVal(20)
  /\ file[1].key # Key("savefile.version", -1, -1)

=============================================================================
